---- MODULE Spec2Model ----
(***************************************************************************)
(* A model of the lnd-cc payment channel engine: the commitment state      *)
(* machine of lnwallet/channel.go run by two parties over a FIFO link, and *)
(* the funding reservation dispatcher of lnwallet/wallet.go.               *)
(*                                                                         *)
(* Cryptography is modelled symbolically with injective integer encodings: *)
(* a pre-image of party p's elkrem sender at index i is p*100+i, sha256    *)
(* adds 1000, a revocation key is commitKey*10000+preimage, a signature is *)
(* the pair (signing key, signed transaction).  A transaction is the bag   *)
(* of its outputs, which is what the canonical sort makes of it.           *)
(***************************************************************************)
EXTENDS Integers, Sequences, FiniteSets, Bags, TLC

\* ------------------------------------------------------------------------
\* Bounds of the model
\* ------------------------------------------------------------------------
\* Add entries pending in the two logs together (Spec).
MaxPendingAdds == 1
\* Highest commitment height a party signs (Spec).
MaxChainHeight == 2
\* Wire messages in flight (Spec).
MaxInFlight == 1
\* Forged wire inputs delivered (SpecFaulty).
MaxBadInputs == 1
\* Highest commitment height a party signs (SpecFaulty).
MaxFaultyHeight == 1
\* Highest elkrem index a party hands out as window edge (SpecWindow).
MaxWindowEdge == 5
\* Wire messages in flight towards one party (SpecWindow).
MaxPipelined == 2
\* Largest settled balance of a party at open.
MaxFunding == 3
\* Add entries the two parties may place in SpecSettle
MaxSettleAdds == 2
\* outpoints the wallet controller holds at start
MaxCoins == 2
\* funding reservations ever requested (caps nextFundingID)
MaxReservations == 3
\* requests waiting in msgChan
MaxQueued == 1
\* largest funding amount requested
MaxFundingAmount == 2
\* method calls one goroutine makes in SpecRace
MaxRaceCalls == 2
\* funding inputs the counterparty contributes
MaxTheirInputs == 2
\* reservations requested in SpecFunding
MaxFundingFlows == 1
\* completed reservations whose confirmation waiter runs in SpecConfirm
MaxWaiters == 3
\* commitments the peer sends without waiting for a revocation (SpecFlood)
MaxFlood == 5
\* unspent outputs in one listing handed to coinSelect (SpecCoinSelect)
MaxListed == 3
\* largest amount asked of coinSelect (SpecCoinSelect)
MaxSelectAmount == 5

\* ------------------------------------------------------------------------
\* Program constants
\* ------------------------------------------------------------------------
InitialRevocationWindow == 4

Add == 0
Timeout == 1
Settle == 2

channelPending == 0
channelOpen == 1
channelClosing == 2
channelClosed == 3

zeroHash == 0

commitFee == 0

\* ------------------------------------------------------------------------
\* Parties and inputs
\* ------------------------------------------------------------------------
Party == {1, 2}
Peer(p) == 3 - p

\* Settled balances of the channel at open, seen from party 1.
Funding == [our |-> MaxFunding, their |-> MaxFunding - 1]

HTLCAmounts == {1, 2}
PaymentPreimages == {1, 2}

\* A pre-image that no elkrem sender of the channel produces.
ForgedPreimage == 9 * 100 + 1

\* ------------------------------------------------------------------------
\* Symbolic cryptography
\* ------------------------------------------------------------------------
Sha256(x) == 1000 + x

CommitKey(p) == p
MultiSigKey(p) == p

\* LocalElkrem.AtIndex of party p.
AtIndex(p, i) == p * 100 + i

ElkremOwner(pre) == pre \div 100
ElkremIndex(pre) == pre % 100

\* elkrem receiver: the sequence of accepted pre-images.  A pre-image is
\* consistent when it continues the tree of the ones already held.
ElkremConsistent(recv, pre) ==
  \A k \in 1..Len(recv) :
     /\ ElkremOwner(recv[k]) = ElkremOwner(pre)
     /\ ElkremIndex(pre) = Len(recv)

AddNext(recv, pre) ==
  IF ElkremConsistent(recv, pre)
    THEN [ok |-> TRUE, recv |-> Append(recv, pre)]
    ELSE [ok |-> FALSE, recv |-> recv]

deriveRevocationPubkey(commitKey, pre) == commitKey * 10000 + pre

\* The public key of deriveRevocationPrivKey(commitPriv, pre).
deriveRevocationPrivKeyPub(commitKey, pre) == commitKey * 10000 + pre

SignTx(key, txn) == [signer |-> key, tx |-> txn]
VerifySig(sig, txn, key) == sig.signer = key /\ sig.tx = txn

NoSig == [signer |-> 0, tx |-> [outs |-> EmptyBag]]
NoTx == [outs |-> EmptyBag]

\* ------------------------------------------------------------------------
\* Generic helpers
\* ------------------------------------------------------------------------
RECURSIVE SeqSum(_)
SeqSum(s) == IF s = <<>> THEN 0 ELSE Head(s) + SeqSum(Tail(s))

RemoveAt(s, k) == SubSeq(s, 1, k - 1) \o SubSeq(s, k + 1, Len(s))

\* The element of a singleton.  Only({e(x) : x \in {v}}) is e with x bound to
\* the value of v, computed once.
Only(S) == CHOOSE x \in S : TRUE

\* The first of the positions in S, 0 when there is none.
FirstPos(S) ==
  IF S = {} THEN 0 ELSE CHOOSE k \in S : \A j \in S : k <= j

\* ------------------------------------------------------------------------
\* Channel data (lnwallet/channel.go)
\* ------------------------------------------------------------------------
PaymentDescriptor(type, rhash, amount, index, parent) ==
  [EntryType |-> type, RHash |-> rhash, Amount |-> amount, Index |-> index,
   ParentIndex |-> parent,
   addCommitHeightRemote |-> 0, addCommitHeightLocal |-> 0,
   removeCommitHeightRemote |-> 0, removeCommitHeightLocal |-> 0,
   isForwarded |-> FALSE, settled |-> FALSE]

commitment(h, ourIdx, theirIdx, txn, sig, ourBal, theirBal) ==
  [height |-> h, ourMessageIndex |-> ourIdx, theirMessageIndex |-> theirIdx,
   txn |-> txn, sig |-> sig, ourBalance |-> ourBal, theirBalance |-> theirBal]

CommitRevocation(pre, nextKey, nextHash) ==
  [Revocation |-> pre, NextRevocationKey |-> nextKey,
   NextRevocationHash |-> nextHash]

\* commitmentChain: the list of unrevoked commitments, tail first.
tip(chain) == chain[Len(chain)]
tail(chain) == chain[1]
\* addCommitment that overwrites the tip.
addCommitmentOverTip(chain, c) == Append(SubSeq(chain, 1, Len(chain) - 1), c)

addCommitment(chain, c) == Append(chain, c)

\* advanceTail that leaves the tail where it is.
advanceTailStuck(chain) == chain

advanceTail(chain) == Tail(chain)

\* The open channel handed over by the funding workflow, as party p holds it.
OpenChannel(p, ourBal, theirBal) ==
  [NumUpdates |-> 0, OurBalance |-> ourBal, TheirBalance |-> theirBal,
   Capacity |-> ourBal + theirBal,
   OurCommitTx |-> NoTx, OurCommitSig |-> NoSig,
   RemoteElkrem |-> <<>>,
   TheirCurrentRevocation |->
      deriveRevocationPubkey(CommitKey(p), AtIndex(Peer(p), 0)),
   TheirCurrentRevocationHash |-> zeroHash]

NewLightningChannel(p, state) ==
  LET initialCommitment ==
        commitment(state.NumUpdates, 0, 0, NoTx, NoSig,
                   state.OurBalance, state.TheirBalance)
  IN [id |-> p,
      ourLogCounter |-> 0, theirLogCounter |-> 0,
      status |-> channelPending,
      currentHeight |-> state.NumUpdates,
      revocationWindowEdge |-> state.NumUpdates,
      usedRevocations |-> <<>>, revocationWindow |-> <<>>,
      remoteCommitChain |-> <<initialCommitment>>,
      localCommitChain |-> <<initialCommitment>>,
      channelState |-> state,
      ourUpdateLog |-> <<>>, theirUpdateLog |-> <<>>,
      ourLogIndex |-> {}, theirLogIndex |-> {},
      crashed |-> FALSE]

\* ------------------------------------------------------------------------
\* Building a commitment view
\* ------------------------------------------------------------------------
InView(log, bound) == {k \in 1..Len(log) : log[k].Index < bound}

\* processAddEntry that marks the entry without debiting its amount.
processAddEntryNoDebit(htlc, ourBalance, theirBalance, nextHeight, remoteChain, isIncoming) ==
  [htlc |-> IF remoteChain
              THEN [htlc EXCEPT !.addCommitHeightRemote = nextHeight]
              ELSE [htlc EXCEPT !.addCommitHeightLocal = nextHeight],
   our |-> ourBalance, their |-> theirBalance]

processAddEntry(htlc, ourBalance, theirBalance, nextHeight, remoteChain, isIncoming) ==
  LET addHeight == IF remoteChain THEN htlc.addCommitHeightRemote
                                  ELSE htlc.addCommitHeightLocal
  IN IF addHeight # 0
       THEN [htlc |-> htlc, our |-> ourBalance, their |-> theirBalance]
       ELSE [htlc |-> IF remoteChain
                        THEN [htlc EXCEPT !.addCommitHeightRemote = nextHeight]
                        ELSE [htlc EXCEPT !.addCommitHeightLocal = nextHeight],
             our |-> IF isIncoming THEN ourBalance
                                   ELSE ourBalance - htlc.Amount,
             their |-> IF isIncoming THEN theirBalance - htlc.Amount
                                     ELSE theirBalance]

\* processRemoveEntry that does not look at the height already recorded.
processRemoveEntryAgain(htlc, ourBalance, theirBalance, nextHeight, remoteChain, isIncoming) ==
  LET toUs == \/ isIncoming /\ htlc.EntryType = Settle
              \/ ~isIncoming /\ htlc.EntryType = Timeout
      toThem == \/ isIncoming /\ htlc.EntryType = Timeout
                \/ ~isIncoming /\ htlc.EntryType = Settle
  IN [htlc |-> IF remoteChain
                 THEN [htlc EXCEPT !.removeCommitHeightRemote = nextHeight]
                 ELSE [htlc EXCEPT !.removeCommitHeightLocal = nextHeight],
      our |-> IF toUs THEN ourBalance + htlc.Amount ELSE ourBalance,
      their |-> IF toThem THEN theirBalance + htlc.Amount ELSE theirBalance]

processRemoveEntry(htlc, ourBalance, theirBalance, nextHeight, remoteChain, isIncoming) ==
  LET removeHeight == IF remoteChain THEN htlc.removeCommitHeightRemote
                                     ELSE htlc.removeCommitHeightLocal
      toUs == \/ isIncoming /\ htlc.EntryType = Settle
              \/ ~isIncoming /\ htlc.EntryType = Timeout
      toThem == \/ isIncoming /\ htlc.EntryType = Timeout
                \/ ~isIncoming /\ htlc.EntryType = Settle
  IN IF removeHeight # 0
       THEN [htlc |-> htlc, our |-> ourBalance, their |-> theirBalance]
       ELSE [htlc |-> IF remoteChain
                        THEN [htlc EXCEPT !.removeCommitHeightRemote = nextHeight]
                        ELSE [htlc EXCEPT !.removeCommitHeightLocal = nextHeight],
             our |-> IF toUs THEN ourBalance + htlc.Amount ELSE ourBalance,
             their |-> IF toThem THEN theirBalance + htlc.Amount
                                 ELSE theirBalance]

\* First pass of evaluateHTLCView over one log: the non-add entries in view.
RECURSIVE RemovePass(_, _, _, _, _, _)
RemovePass(st, k, bound, nextHeight, remoteChain, isIncoming) ==
  Only({
    IF k > Len(s.log) THEN s
    ELSE IF s.log[k].Index < bound /\ s.log[k].EntryType # Add
      THEN Only({
             RemovePass([log |-> [s.log EXCEPT ![k] = r.htlc],
                         our |-> r.our, their |-> r.their],
                        k + 1, bound, nextHeight, remoteChain, isIncoming)
             : r \in {processRemoveEntry(s.log[k], s.our, s.their, nextHeight,
                                         remoteChain, isIncoming)}})
      ELSE RemovePass(s, k + 1, bound, nextHeight, remoteChain, isIncoming)
    : s \in {st}})

\* Second pass over one log: the add entries in view that are not skipped.
RECURSIVE AddPass(_, _, _, _, _, _, _)
AddPass(st, k, bound, skip, nextHeight, remoteChain, isIncoming) ==
  Only({
    IF k > Len(s.log) THEN s
    ELSE IF /\ s.log[k].Index < bound
            /\ s.log[k].EntryType = Add
            /\ s.log[k].Index \notin skip
      THEN Only({
             AddPass([log |-> [s.log EXCEPT ![k] = r.htlc],
                      our |-> r.our, their |-> r.their,
                      kept |-> Append(s.kept, r.htlc)],
                     k + 1, bound, skip, nextHeight, remoteChain, isIncoming)
             : r \in {processAddEntry(s.log[k], s.our, s.their, nextHeight,
                                      remoteChain, isIncoming)}})
      ELSE AddPass(s, k + 1, bound, skip, nextHeight, remoteChain, isIncoming)
    : s \in {st}})

\* evaluateHTLCView on the view fetchHTLCView(theirLogIndex, ourLogIndex)
\* selects.  The entries are shared with the logs, so the logs come back
\* with the commit heights the evaluation has written.
evaluateHTLCView(lc, ourIdx, theirIdx, ourBalance, theirBalance, nextHeight, remoteChain) ==
  LET ourRemoves == {k \in InView(lc.ourUpdateLog, ourIdx) :
                        lc.ourUpdateLog[k].EntryType # Add}
      theirRemoves == {k \in InView(lc.theirUpdateLog, theirIdx) :
                        lc.theirUpdateLog[k].EntryType # Add}
      skipThem == {lc.ourUpdateLog[k].ParentIndex : k \in ourRemoves}
      skipUs == {lc.theirUpdateLog[k].ParentIndex : k \in theirRemoves}
  IN Only({ Only({ Only({ Only({
       [panic |-> ~(skipThem \subseteq lc.theirLogIndex
                    /\ skipUs \subseteq lc.ourLogIndex),
        ourLog |-> a1.log, theirLog |-> a2.log,
        our |-> a2.our, their |-> a2.their,
        ourUpdates |-> a1.kept, theirUpdates |-> a2.kept]
       : a2 \in {AddPass([log |-> r2.log, our |-> a1.our, their |-> a1.their,
                          kept |-> <<>>],
                         1, theirIdx, skipThem, nextHeight, remoteChain,
                         TRUE)}})
       : a1 \in {AddPass([log |-> r1.log, our |-> r2.our, their |-> r2.their,
                          kept |-> <<>>],
                         1, ourIdx, skipUs, nextHeight, remoteChain, FALSE)}})
       : r2 \in {RemovePass([log |-> lc.theirUpdateLog, our |-> r1.our,
                             their |-> r1.their],
                            1, theirIdx, nextHeight, remoteChain, FALSE)}})
       : r1 \in {RemovePass([log |-> lc.ourUpdateLog, our |-> ourBalance,
                             their |-> theirBalance],
                            1, ourIdx, nextHeight, remoteChain, TRUE)}})

TxOut(kind, k1, k2, amt, rev, rhash) ==
  [kind |-> kind, k1 |-> k1, k2 |-> k2, amt |-> amt, rev |-> rev,
   rhash |-> rhash]

createCommitTx(selfKey, theirKey, revokeKey, amountToSelf, amountToThem) ==
  (IF amountToSelf # 0
     THEN SetToBag({TxOut("toSelf", selfKey, 0, amountToSelf, revokeKey, 0)})
     ELSE EmptyBag)
  (+)
  (IF amountToThem # 0
     THEN SetToBag({TxOut("toThem", theirKey, 0, amountToThem, 0, 0)})
     ELSE EmptyBag)

\* The output addHTLC appends for one entry of the filtered view.
addHTLC(lc, ourCommit, pd, revocation, isIncoming) ==
  LET localKey == CommitKey(lc.id)
      remoteKey == CommitKey(Peer(lc.id))
  IN CASE isIncoming /\ ourCommit ->
            TxOut("receiverHTLC", remoteKey, localKey, pd.Amount, revocation,
                  pd.RHash)
       [] isIncoming /\ ~ourCommit ->
            TxOut("senderHTLC", remoteKey, localKey, pd.Amount, revocation,
                  pd.RHash)
       [] ~isIncoming /\ ourCommit ->
            TxOut("senderHTLC", localKey, remoteKey, pd.Amount, revocation,
                  pd.RHash)
       [] ~isIncoming /\ ~ourCommit ->
            TxOut("receiverHTLC", localKey, remoteKey, pd.Amount, revocation,
                  pd.RHash)

RECURSIVE HTLCOutputs(_, _, _, _, _)
HTLCOutputs(lc, ourCommit, pds, revocation, isIncoming) ==
  IF pds = <<>> THEN EmptyBag
  ELSE SetToBag({addHTLC(lc, ourCommit, Head(pds), revocation, isIncoming)})
       (+) HTLCOutputs(lc, ourCommit, Tail(pds), revocation, isIncoming)

fetchCommitmentView(lc, remoteChain, ourLogIndex, theirLogIndex, revocationKey, revocationHash) ==
  LET commitChain == IF remoteChain THEN lc.remoteCommitChain
                                    ELSE lc.localCommitChain
      nextHeight == tip(commitChain).height + 1
      selfKey == IF remoteChain THEN CommitKey(Peer(lc.id))
                                ELSE CommitKey(lc.id)
      remoteKey == IF remoteChain THEN CommitKey(lc.id)
                                  ELSE CommitKey(Peer(lc.id))
      ourCommitTx == ~remoteChain
  IN Only({
       LET delayBalance == IF remoteChain THEN view.their ELSE view.our
           p2wkhBalance == IF remoteChain THEN view.our ELSE view.their
           commitTx == createCommitTx(selfKey, remoteKey, revocationKey,
                                      delayBalance, p2wkhBalance)
                       (+) HTLCOutputs(lc, ourCommitTx, view.ourUpdates,
                                       revocationHash, FALSE)
                       (+) HTLCOutputs(lc, ourCommitTx, view.theirUpdates,
                                       revocationHash, TRUE)
       IN [panic |-> view.panic,
           lc |-> [lc EXCEPT !.ourUpdateLog = view.ourLog,
                             !.theirUpdateLog = view.theirLog],
           view |-> commitment(nextHeight, ourLogIndex, theirLogIndex,
                               [outs |-> commitTx], NoSig, view.our,
                               view.their)]
       : view \in {evaluateHTLCView(lc, ourLogIndex, theirLogIndex,
                                    tip(commitChain).ourBalance,
                                    tip(commitChain).theirBalance,
                                    nextHeight, remoteChain)}})

\* ------------------------------------------------------------------------
\* The commitment state machine
\* ------------------------------------------------------------------------
Crash(lc) == [lc EXCEPT !.crashed = TRUE]

\* SignNextCommitment without the test on usedRevocations.
SignNextCommitmentWindowOnly(lc) ==
  IF Len(lc.revocationWindow) = 0
    THEN [lc |-> lc, err |-> "ErrNoWindow", sig |-> NoSig, idx |-> 0]
    ELSE
      LET nextRevocation == lc.revocationWindow[1]
      IN Only({
           IF r.panic
             THEN [lc |-> Crash(lc), err |-> "panic", sig |-> NoSig,
                   idx |-> 0]
             ELSE [lc |-> [r.lc EXCEPT
                      !.remoteCommitChain = addCommitment(@, r.view),
                      !.usedRevocations = Append(@, nextRevocation),
                      !.revocationWindow = Tail(@)],
                   err |-> "none",
                   sig |-> SignTx(MultiSigKey(lc.id), r.view.txn),
                   idx |-> lc.theirLogCounter]
           : r \in {fetchCommitmentView(lc, TRUE, lc.ourLogCounter,
                                        lc.theirLogCounter,
                                        nextRevocation.NextRevocationKey,
                                        nextRevocation.NextRevocationHash)}})

\* SignNextCommitment that puts the revocation it used in front of the
\* used set.
SignNextCommitmentUsedFirst(lc) ==
  IF Len(lc.revocationWindow) = 0
       \/ Len(lc.usedRevocations) = InitialRevocationWindow
    THEN [lc |-> lc, err |-> "ErrNoWindow", sig |-> NoSig, idx |-> 0]
    ELSE
      LET nextRevocation == lc.revocationWindow[1]
      IN Only({
           IF r.panic
             THEN [lc |-> Crash(lc), err |-> "panic", sig |-> NoSig,
                   idx |-> 0]
             ELSE [lc |-> [r.lc EXCEPT
                      !.remoteCommitChain = addCommitment(@, r.view),
                      !.usedRevocations = <<nextRevocation>> \o @,
                      !.revocationWindow = Tail(@)],
                   err |-> "none",
                   sig |-> SignTx(MultiSigKey(lc.id), r.view.txn),
                   idx |-> lc.theirLogCounter]
           : r \in {fetchCommitmentView(lc, TRUE, lc.ourLogCounter,
                                        lc.theirLogCounter,
                                        nextRevocation.NextRevocationKey,
                                        nextRevocation.NextRevocationHash)}})

SignNextCommitment(lc) ==
  IF Len(lc.revocationWindow) = 0
       \/ Len(lc.usedRevocations) = InitialRevocationWindow
    THEN [lc |-> lc, err |-> "ErrNoWindow", sig |-> NoSig, idx |-> 0]
    ELSE
      LET nextRevocation == lc.revocationWindow[1]
      IN Only({
           IF r.panic
             THEN [lc |-> Crash(lc), err |-> "panic", sig |-> NoSig,
                   idx |-> 0]
             ELSE [lc |-> [r.lc EXCEPT
                      !.remoteCommitChain = addCommitment(@, r.view),
                      !.usedRevocations = Append(@, nextRevocation),
                      !.revocationWindow = Tail(@)],
                   err |-> "none",
                   sig |-> SignTx(MultiSigKey(lc.id), r.view.txn),
                   idx |-> lc.theirLogCounter]
           : r \in {fetchCommitmentView(lc, TRUE, lc.ourLogCounter,
                                        lc.theirLogCounter,
                                        nextRevocation.NextRevocationKey,
                                        nextRevocation.NextRevocationHash)}})

ReceiveNewCommitment(lc, rawSig, ourLogIndex) ==
  LET theirCommitKey == CommitKey(Peer(lc.id))
      theirMultiSigKey == MultiSigKey(Peer(lc.id))
      nextHeight == lc.currentHeight + 1
      revocation == AtIndex(lc.id, nextHeight)
      revocationKey == deriveRevocationPubkey(theirCommitKey, revocation)
      revocationHash == Sha256(revocation)
  IN Only({
       IF r.panic THEN [lc |-> Crash(lc), err |-> "panic"]
       ELSE IF ~VerifySig(rawSig, r.view.txn, theirMultiSigKey)
         THEN [lc |-> r.lc, err |-> "invalid commitment signature"]
         ELSE [lc |-> [r.lc EXCEPT !.localCommitChain =
                          addCommitment(@, [r.view EXCEPT !.sig = rawSig])],
               err |-> "none"]
       : r \in {fetchCommitmentView(lc, FALSE, ourLogIndex,
                                    lc.theirLogCounter, revocationKey,
                                    revocationHash)}})

PendingUpdates(lc) ==
  tip(lc.localCommitChain).ourMessageIndex
     # tip(lc.remoteCommitChain).ourMessageIndex

\* RevokeCurrentCommitment that leaves NumUpdates as it is.
RevokeCurrentCommitmentKeepCount(lc) ==
  LET theirCommitKey == CommitKey(Peer(lc.id))
      currentRevocation == AtIndex(lc.id, lc.currentHeight)
      edge == lc.revocationWindowEdge + 1
      revocationEdge == AtIndex(lc.id, edge)
      revocationMsg ==
        CommitRevocation(currentRevocation,
                         deriveRevocationPubkey(theirCommitKey, revocationEdge),
                         Sha256(revocationEdge))
      chain == advanceTail(lc.localCommitChain)
  IN IF chain = <<>>
       THEN [lc |-> Crash([lc EXCEPT !.revocationWindowEdge = edge,
                                     !.localCommitChain = chain]),
             err |-> "panic", msg |-> revocationMsg]
       ELSE [lc |-> [lc EXCEPT
                !.revocationWindowEdge = edge,
                !.localCommitChain = chain,
                !.currentHeight = @ + 1,
                !.channelState.OurCommitTx = tail(chain).txn,
                !.channelState.OurBalance = tail(chain).ourBalance,
                !.channelState.TheirBalance = tail(chain).theirBalance,
                !.channelState.OurCommitSig = tail(chain).sig],
             err |-> "none", msg |-> revocationMsg]

RevokeCurrentCommitment(lc) ==
  LET theirCommitKey == CommitKey(Peer(lc.id))
      currentRevocation == AtIndex(lc.id, lc.currentHeight)
      edge == lc.revocationWindowEdge + 1
      revocationEdge == AtIndex(lc.id, edge)
      revocationMsg ==
        CommitRevocation(currentRevocation,
                         deriveRevocationPubkey(theirCommitKey, revocationEdge),
                         Sha256(revocationEdge))
      chain == advanceTail(lc.localCommitChain)
  IN IF chain = <<>>
       THEN [lc |-> Crash([lc EXCEPT !.revocationWindowEdge = edge,
                                     !.localCommitChain = chain]),
             err |-> "panic", msg |-> revocationMsg]
       ELSE [lc |-> [lc EXCEPT
                !.revocationWindowEdge = edge,
                !.localCommitChain = chain,
                !.currentHeight = @ + 1,
                !.channelState.OurCommitTx = tail(chain).txn,
                !.channelState.OurBalance = tail(chain).ourBalance,
                !.channelState.TheirBalance = tail(chain).theirBalance,
                !.channelState.OurCommitSig = tail(chain).sig,
                !.channelState.NumUpdates = @ + 1],
             err |-> "none", msg |-> revocationMsg]

\* compactLog that looks at the tail of the remote chain only.
RECURSIVE compactLogRemoteTail(_, _, _, _)
compactLogRemoteTail(st, k, localChainTail, remoteChainTail) ==
  Only({
    IF s.panic \/ k > Len(s.logA) THEN s
    ELSE LET htlc == s.logA[k] IN
      IF htlc.EntryType = Add
        THEN compactLogRemoteTail(s, k + 1, localChainTail, remoteChainTail)
      ELSE IF htlc.removeCommitHeightRemote = 0
                \/ htlc.removeCommitHeightLocal = 0
        THEN compactLogRemoteTail(s, k + 1, localChainTail, remoteChainTail)
      ELSE IF remoteChainTail >= htlc.removeCommitHeightRemote
        THEN IF htlc.ParentIndex \notin s.indexB
               THEN [s EXCEPT !.panic = TRUE]
               ELSE LET pos == FirstPos({j \in 1..Len(s.logB) :
                                  s.logB[j].Index = htlc.ParentIndex
                                    /\ s.logB[j].EntryType = Add})
                    IN compactLogRemoteTail(
                         [s EXCEPT
                            !.logB = IF pos = 0 THEN @ ELSE RemoveAt(@, pos),
                            !.logA = RemoveAt(@, k),
                            !.indexB = @ \ {htlc.ParentIndex},
                            !.indexA = @ \ {htlc.Index}],
                         k, localChainTail, remoteChainTail)
      ELSE compactLogRemoteTail(s, k + 1, localChainTail, remoteChainTail)
    : s \in {st}})

\* One run of the compactLog closure over logA; st holds both logs and
\* both indexes.
RECURSIVE compactLog(_, _, _, _)
compactLog(st, k, localChainTail, remoteChainTail) ==
  Only({
    IF s.panic \/ k > Len(s.logA) THEN s
    ELSE LET htlc == s.logA[k] IN
      IF htlc.EntryType = Add
        THEN compactLog(s, k + 1, localChainTail, remoteChainTail)
      ELSE IF htlc.removeCommitHeightRemote = 0
                \/ htlc.removeCommitHeightLocal = 0
        THEN compactLog(s, k + 1, localChainTail, remoteChainTail)
      ELSE IF remoteChainTail >= htlc.removeCommitHeightRemote
                /\ localChainTail >= htlc.removeCommitHeightLocal
        THEN IF htlc.ParentIndex \notin s.indexB
               THEN [s EXCEPT !.panic = TRUE]
               ELSE LET pos == FirstPos({j \in 1..Len(s.logB) :
                                  s.logB[j].Index = htlc.ParentIndex
                                    /\ s.logB[j].EntryType = Add})
                    IN compactLog(
                         [s EXCEPT
                            !.logB = IF pos = 0 THEN @ ELSE RemoveAt(@, pos),
                            !.logA = RemoveAt(@, k),
                            !.indexB = @ \ {htlc.ParentIndex},
                            !.indexA = @ \ {htlc.Index}],
                         k, localChainTail, remoteChainTail)
      ELSE compactLog(s, k + 1, localChainTail, remoteChainTail)
    : s \in {st}})

\* compactLogs that evicts nothing.
compactLogsKeep(lc, localChainTail, remoteChainTail) == lc

compactLogs(lc, localChainTail, remoteChainTail) ==
  Only({ Only({
    IF c2.panic THEN Crash(lc)
    ELSE [lc EXCEPT !.ourUpdateLog = c2.logB, !.theirUpdateLog = c2.logA,
                    !.ourLogIndex = c2.indexB, !.theirLogIndex = c2.indexA]
    : c2 \in {compactLog([logA |-> c1.logB, logB |-> c1.logA,
                          indexB |-> c1.indexA, indexA |-> c1.indexB,
                          panic |-> c1.panic],
                         1, localChainTail, remoteChainTail)}})
    : c1 \in {compactLog([logA |-> lc.ourUpdateLog,
                          logB |-> lc.theirUpdateLog,
                          indexB |-> lc.theirLogIndex,
                          indexA |-> lc.ourLogIndex, panic |-> FALSE],
                         1, localChainTail, remoteChainTail)}})

\* The scan of ReceiveRevocation over their log for entries to forward.
Forwardable(htlc, localChainTail, remoteChainTail) ==
  /\ ~htlc.isForwarded
  /\ ~(htlc.EntryType = Add
       /\ (htlc.addCommitHeightRemote = 0 \/ htlc.addCommitHeightLocal = 0))
  /\ \/ /\ htlc.EntryType = Add
        /\ remoteChainTail >= htlc.addCommitHeightRemote
        /\ localChainTail >= htlc.addCommitHeightLocal
     \/ /\ htlc.EntryType # Add
        /\ remoteChainTail >= htlc.removeCommitHeightRemote
        /\ localChainTail >= htlc.removeCommitHeightLocal
\* ReceiveRevocation that rotates to the next key and hash of the message.
ReceiveRevocationRotateToMessage(lc, revMsg) ==
  IF revMsg.Revocation = zeroHash
    THEN [lc |-> [lc EXCEPT !.revocationWindow = Append(@, revMsg)],
          err |-> "none", fwd |-> <<>>]
  ELSE
    LET ourCommitKey == CommitKey(lc.id)
        currentRevocationKey == lc.channelState.TheirCurrentRevocation
        pendingRevocation == revMsg.Revocation
        elk == AddNext(lc.channelState.RemoteElkrem, pendingRevocation)
        lc1 == [lc EXCEPT !.channelState.RemoteElkrem = elk.recv]
    IN IF ~elk.ok
         THEN [lc |-> lc, err |-> "elkrem mismatch", fwd |-> <<>>]
       ELSE IF deriveRevocationPrivKeyPub(ourCommitKey, pendingRevocation)
                 # currentRevocationKey
         THEN [lc |-> lc1, err |-> "revocation key mismatch", fwd |-> <<>>]
       ELSE IF lc.channelState.TheirCurrentRevocationHash # zeroHash
                 /\ lc.channelState.TheirCurrentRevocationHash
                      # Sha256(pendingRevocation)
         THEN [lc |-> lc1, err |-> "revocation hash mismatch", fwd |-> <<>>]
       ELSE IF lc.usedRevocations = <<>>
         THEN [lc |-> Crash(lc1), err |-> "panic", fwd |-> <<>>]
       ELSE
         Only({
           IF lc2.remoteCommitChain = <<>>
             THEN [lc |-> Crash(lc2), err |-> "panic", fwd |-> <<>>]
           ELSE
             LET remoteChainTail == tail(lc2.remoteCommitChain).height
                 localChainTail == tail(lc2.localCommitChain).height
                 fwdPos == {k \in 1..Len(lc2.theirUpdateLog) :
                              Forwardable(lc2.theirUpdateLog[k],
                                          localChainTail, remoteChainTail)}
                 marked == [k \in 1..Len(lc2.theirUpdateLog) |->
                              IF k \in fwdPos
                                THEN [lc2.theirUpdateLog[k]
                                        EXCEPT !.isForwarded = TRUE]
                                ELSE lc2.theirUpdateLog[k]]
             IN Only({
                  [lc |-> lc4,
                   err |-> IF lc4.crashed THEN "panic" ELSE "none",
                   fwd |-> SelectSeq(marked,
                             LAMBDA e : e.isForwarded
                                /\ \E k \in fwdPos :
                                     lc2.theirUpdateLog[k].Index = e.Index)]
                  : lc4 \in {compactLogs([lc2 EXCEPT !.theirUpdateLog = marked],
                                         localChainTail, remoteChainTail)}})
           : lc2 \in {[lc1 EXCEPT
                        !.channelState.TheirCurrentRevocation =
                           revMsg.NextRevocationKey,
                        !.channelState.TheirCurrentRevocationHash =
                           revMsg.NextRevocationHash,
                        !.usedRevocations = Tail(@),
                        !.revocationWindow = Append(@, revMsg),
                        !.remoteCommitChain = advanceTail(@)]}})

ReceiveRevocation(lc, revMsg) ==
  IF revMsg.Revocation = zeroHash
    THEN [lc |-> [lc EXCEPT !.revocationWindow = Append(@, revMsg)],
          err |-> "none", fwd |-> <<>>]
  ELSE
    LET ourCommitKey == CommitKey(lc.id)
        currentRevocationKey == lc.channelState.TheirCurrentRevocation
        pendingRevocation == revMsg.Revocation
        elk == AddNext(lc.channelState.RemoteElkrem, pendingRevocation)
        lc1 == [lc EXCEPT !.channelState.RemoteElkrem = elk.recv]
    IN IF ~elk.ok
         THEN [lc |-> lc, err |-> "elkrem mismatch", fwd |-> <<>>]
       ELSE IF deriveRevocationPrivKeyPub(ourCommitKey, pendingRevocation)
                 # currentRevocationKey
         THEN [lc |-> lc1, err |-> "revocation key mismatch", fwd |-> <<>>]
       ELSE IF lc.channelState.TheirCurrentRevocationHash # zeroHash
                 /\ lc.channelState.TheirCurrentRevocationHash
                      # Sha256(pendingRevocation)
         THEN [lc |-> lc1, err |-> "revocation hash mismatch", fwd |-> <<>>]
       ELSE IF lc.usedRevocations = <<>>
         THEN [lc |-> Crash(lc1), err |-> "panic", fwd |-> <<>>]
       ELSE
         Only({
           IF lc2.remoteCommitChain = <<>>
             THEN [lc |-> Crash(lc2), err |-> "panic", fwd |-> <<>>]
           ELSE
             LET remoteChainTail == tail(lc2.remoteCommitChain).height
                 localChainTail == tail(lc2.localCommitChain).height
                 fwdPos == {k \in 1..Len(lc2.theirUpdateLog) :
                              Forwardable(lc2.theirUpdateLog[k],
                                          localChainTail, remoteChainTail)}
                 marked == [k \in 1..Len(lc2.theirUpdateLog) |->
                              IF k \in fwdPos
                                THEN [lc2.theirUpdateLog[k]
                                        EXCEPT !.isForwarded = TRUE]
                                ELSE lc2.theirUpdateLog[k]]
             IN Only({
                  [lc |-> lc4,
                   err |-> IF lc4.crashed THEN "panic" ELSE "none",
                   fwd |-> SelectSeq(marked,
                             LAMBDA e : e.isForwarded
                                /\ \E k \in fwdPos :
                                     lc2.theirUpdateLog[k].Index = e.Index)]
                  : lc4 \in {compactLogs([lc2 EXCEPT !.theirUpdateLog = marked],
                                         localChainTail, remoteChainTail)}})
           : lc2 \in {[lc1 EXCEPT
                        !.channelState.TheirCurrentRevocation =
                           lc.usedRevocations[1].NextRevocationKey,
                        !.channelState.TheirCurrentRevocationHash =
                           lc.usedRevocations[1].NextRevocationHash,
                        !.usedRevocations = Tail(@),
                        !.revocationWindow = Append(@, revMsg),
                        !.remoteCommitChain = advanceTail(@)]}})

ExtendRevocationWindow(lc) ==
  LET nextHeight == lc.revocationWindowEdge + 1
      revocation == AtIndex(lc.id, nextHeight)
      theirCommitKey == CommitKey(Peer(lc.id))
  IN [lc |-> [lc EXCEPT !.revocationWindowEdge = @ + 1],
      msg |-> CommitRevocation(zeroHash,
                 deriveRevocationPubkey(theirCommitKey, revocation),
                 Sha256(revocation))]

AddHTLC(lc, rhash, amount) ==
  LET pd == PaymentDescriptor(Add, rhash, amount, lc.ourLogCounter, 0)
  IN [lc |-> [lc EXCEPT !.ourUpdateLog = Append(@, pd),
                        !.ourLogIndex = @ \cup {pd.Index},
                        !.ourLogCounter = @ + 1],
      idx |-> pd.Index]

ReceiveHTLC(lc, rhash, amount) ==
  LET pd == PaymentDescriptor(Add, rhash, amount, lc.theirLogCounter, 0)
  IN [lc |-> [lc EXCEPT !.theirUpdateLog = Append(@, pd),
                        !.theirLogIndex = @ \cup {pd.Index},
                        !.theirLogCounter = @ + 1],
      idx |-> pd.Index]

\* SettleTarget that also accepts an Add already settled.
SettleTargetAgain(htlc, paymentHash) ==
  htlc.EntryType = Add /\ htlc.RHash = paymentHash

SettleTarget(htlc, paymentHash) ==
  htlc.EntryType = Add /\ ~htlc.settled /\ htlc.RHash = paymentHash

SettleHTLC(lc, preimage) ==
  LET paymentHash == Sha256(preimage)
      IsTarget(htlc) == SettleTarget(htlc, paymentHash)
      pos == FirstPos({j \in 1..Len(lc.theirUpdateLog) :
                         IsTarget(lc.theirUpdateLog[j])})
  IN IF pos = 0
       THEN [lc |-> lc, err |-> "invalid payment hash", idx |-> 0]
       ELSE LET parentPd == lc.theirUpdateLog[pos]
                pd == PaymentDescriptor(Settle, 0, parentPd.Amount,
                                        lc.ourLogCounter, parentPd.Index)
            IN [lc |-> [lc EXCEPT
                     !.theirUpdateLog[pos].settled = TRUE,
                     !.ourUpdateLog = Append(@, pd),
                     !.ourLogCounter = @ + 1],
                err |-> "none", idx |-> parentPd.Index]

\* ReceiveHTLCSettle that does not compare the payment hash.
ReceiveHTLCSettleAnyHash(lc, preimage, logIndex) ==
  LET IsEntry(e) == e.Index = logIndex /\ e.EntryType = Add
      pos == FirstPos({j \in 1..Len(lc.ourUpdateLog) :
                         IsEntry(lc.ourUpdateLog[j])})
  IN IF logIndex \notin lc.ourLogIndex
       THEN [lc |-> lc, err |-> "non existant log entry"]
     ELSE LET htlc == lc.ourUpdateLog[pos]
              pd == PaymentDescriptor(Settle, 0, htlc.Amount,
                                      lc.theirLogCounter, htlc.Index)
          IN [lc |-> [lc EXCEPT !.theirUpdateLog = Append(@, pd),
                                !.theirLogCounter = @ + 1],
              err |-> "none"]

ReceiveHTLCSettle(lc, preimage, logIndex) ==
  LET paymentHash == Sha256(preimage)
      IsEntry(e) == e.Index = logIndex /\ e.EntryType = Add
      pos == FirstPos({j \in 1..Len(lc.ourUpdateLog) :
                         IsEntry(lc.ourUpdateLog[j])})
  IN IF logIndex \notin lc.ourLogIndex
       THEN [lc |-> lc, err |-> "non existant log entry"]
     ELSE IF lc.ourUpdateLog[pos].RHash # paymentHash
       THEN [lc |-> lc, err |-> "invalid payment hash"]
     ELSE LET htlc == lc.ourUpdateLog[pos]
              pd == PaymentDescriptor(Settle, 0, htlc.Amount,
                                      lc.theirLogCounter, htlc.Index)
          IN [lc |-> [lc EXCEPT !.theirUpdateLog = Append(@, pd),
                                !.theirLogCounter = @ + 1],
              err |-> "none"]

\* ------------------------------------------------------------------------
\* Cooperative close
\* ------------------------------------------------------------------------
DeliveryScript(p) == p

createCooperativeCloseTx(ourBalance, theirBalance, ourDeliveryScript, theirDeliveryScript, initiator) ==
  [outs |->
     (IF ourBalance # 0
        THEN SetToBag({TxOut("delivery", ourDeliveryScript, 0, ourBalance,
                             0, 0)})
        ELSE EmptyBag)
     (+)
     (IF theirBalance # 0
        THEN SetToBag({TxOut("delivery", theirDeliveryScript, 0,
                             theirBalance, 0, 0)})
        ELSE EmptyBag)]

CloseTx(lc, initiator) ==
  createCooperativeCloseTx(lc.channelState.OurBalance,
                           lc.channelState.TheirBalance,
                           DeliveryScript(lc.id), DeliveryScript(Peer(lc.id)),
                           initiator)

\* InitCooperativeClose that refuses only while the status is closing.
InitCooperativeCloseClosingOnly(lc) ==
  IF lc.status = channelClosing
    THEN [lc |-> lc, err |-> "ErrChanClosing", sig |-> NoSig, tx |-> NoTx]
    ELSE [lc |-> [lc EXCEPT !.status = channelClosing], err |-> "none",
          sig |-> SignTx(MultiSigKey(lc.id), CloseTx(lc, TRUE)),
          tx |-> CloseTx(lc, TRUE)]

InitCooperativeClose(lc) ==
  IF lc.status = channelClosing \/ lc.status = channelClosed
    THEN [lc |-> lc, err |-> "ErrChanClosing", sig |-> NoSig, tx |-> NoTx]
    ELSE [lc |-> [lc EXCEPT !.status = channelClosing], err |-> "none",
          sig |-> SignTx(MultiSigKey(lc.id), CloseTx(lc, TRUE)),
          tx |-> CloseTx(lc, TRUE)]

CompleteCooperativeClose(lc, remoteSig) ==
  IF lc.status = channelClosing \/ lc.status = channelClosed
    THEN [lc |-> lc, err |-> "ErrChanClosing", tx |-> NoTx]
  ELSE IF VerifySig(remoteSig, CloseTx(lc, FALSE), MultiSigKey(Peer(lc.id)))
    THEN [lc |-> [lc EXCEPT !.status = channelClosed], err |-> "none",
          tx |-> CloseTx(lc, FALSE)]
    ELSE [lc |-> [lc EXCEPT !.status = channelClosed],
          err |-> "script execution failed", tx |-> NoTx]

\* ------------------------------------------------------------------------
\* The wallet's funding reservations (lnwallet/wallet.go)
\* ------------------------------------------------------------------------
\* The outpoints of the wallet controller, their token value and asset.
Coins == 1..MaxCoins

CoinValue(o) == 1 + (o % 2)

ActiveAsset == "active"

CoinAsset(o) == IF o % 3 = 0 THEN "other" ELSE ActiveAsset

\* What a received input script or signature does in verification.
ScriptValues == {"good", "bad"}

\* theirFundingInputScripts: up to MaxTheirInputs input scripts.
InputScripts ==
  UNION {[1..n -> ScriptValues] : n \in 0..MaxTheirInputs}

IOFailures == {"none", "publish", "sync"}

\* LightningWallet after NewLightningWallet, with the state of its
\* WalletController: the unspent outpoints and the ones it holds locked.
NewLightningWallet ==
  [unspent |-> Coins, locked |-> {},
   lockedOutPoints |-> {},
   fundingLimbo |-> [id \in {} |-> 0],
   nextFundingID |-> 0,
   msgChan |-> <<>>,
   crashed |-> FALSE]

\* A listing that includes the locked outpoints.
ListUnspentWitnessWithLocked(w) ==
  {l \in [1..Cardinality(w.unspent) -> w.unspent] :
     \A i, j \in 1..Cardinality(w.unspent) : i # j => l[i] # l[j]}

\* WalletController.ListUnspentWitness: the unspent outpoints that are not
\* locked, in any order.
ListUnspentWitness(w) ==
  LET avail == w.unspent \ w.locked
  IN {l \in [1..Cardinality(avail) -> avail] :
        \A i, j \in 1..Cardinality(avail) : i # j => l[i] # l[j]}

LockOutpoint(w, o) == [w EXCEPT !.locked = @ \cup {o}]

UnlockOutpoint(w, o) == [w EXCEPT !.locked = @ \ {o}]

\* selectInputs that takes the outputs of every asset.
RECURSIVE selectInputsAnyAsset(_, _, _, _, _, _)
selectInputsAnyAsset(amt, coins, assetId, i, satSelected, selectedUtxos) ==
  IF ~(satSelected < amt)
    THEN [err |-> "none", sat |-> satSelected, utxos |-> selectedUtxos]
  ELSE IF i > Len(coins)
    THEN [err |-> "ErrInsufficientFunds", sat |-> 0, utxos |-> <<>>]
  ELSE selectInputsAnyAsset(amt, coins, assetId, i + 1,
                            satSelected + CoinValue(coins[i]),
                            Append(selectedUtxos, coins[i]))

\* selectInputs: the loop over coins, from position i on.
RECURSIVE selectInputs(_, _, _, _, _, _)
selectInputs(amt, coins, assetId, i, satSelected, selectedUtxos) ==
  IF ~(satSelected < amt)
    THEN [err |-> "none", sat |-> satSelected, utxos |-> selectedUtxos]
  ELSE IF i > Len(coins)
    THEN [err |-> "ErrInsufficientFunds", sat |-> 0, utxos |-> <<>>]
  ELSE IF CoinAsset(coins[i]) = assetId
    THEN selectInputs(amt, coins, assetId, i + 1,
                      satSelected + CoinValue(coins[i]),
                      Append(selectedUtxos, coins[i]))
    ELSE selectInputs(amt, coins, assetId, i + 1, satSelected, selectedUtxos)

coinSelect(amt, coins, assetId) ==
  Only({[err |-> r.err, selectedUtxos |-> r.utxos,
         changeAmt |-> IF r.err = "none" THEN r.sat - amt ELSE 0]
        : r \in {selectInputs(amt, coins, assetId, 1, 0, <<>>)}})

RECURSIVE LockAll(_, _)
LockAll(w, os) ==
  IF os = <<>> THEN w
  ELSE LockAll(LockOutpoint([w EXCEPT !.lockedOutPoints = @ \cup {Head(os)}],
                            Head(os)),
               Tail(os))

RECURSIVE UnlockAll(_, _)
UnlockAll(w, os) ==
  IF os = <<>> THEN w
  ELSE UnlockAll(UnlockOutpoint([w EXCEPT !.lockedOutPoints = @ \ {Head(os)}],
                                Head(os)),
                 Tail(os))

\* selectCoinsAndChange that reserves the coins without locking them.
selectCoinsAndChangeNoLock(w, amt, coins, addrFails) ==
  Only({
    IF sel.err # "none"
      THEN [err |-> sel.err, w |-> w, inputs |-> <<>>, change |-> 0]
    ELSE IF sel.changeAmt # 0 /\ addrFails
      THEN [err |-> "NewAddress", w |-> w,
            inputs |-> sel.selectedUtxos, change |-> 0]
    ELSE [err |-> "none", w |-> w,
          inputs |-> sel.selectedUtxos, change |-> sel.changeAmt]
    : sel \in {coinSelect(amt, coins, ActiveAsset)}})

\* selectCoinsAndChange over the listing coins; addrFails says whether
\* NewAddress fails for the change output.
selectCoinsAndChange(w, amt, coins, addrFails) ==
  Only({
    IF sel.err # "none"
      THEN [err |-> sel.err, w |-> w, inputs |-> <<>>, change |-> 0]
    ELSE IF sel.changeAmt # 0 /\ addrFails
      THEN [err |-> "NewAddress", w |-> LockAll(w, sel.selectedUtxos),
            inputs |-> sel.selectedUtxos, change |-> 0]
    ELSE [err |-> "none", w |-> LockAll(w, sel.selectedUtxos),
          inputs |-> sel.selectedUtxos, change |-> sel.changeAmt]
    : sel \in {coinSelect(amt, coins, ActiveAsset)}})

ChannelReservation(id, fundingAmount, inputs, change) ==
  [reservationID |-> id, fundingAmount |-> fundingAmount,
   inputs |-> inputs, change |-> change, theirInputs |-> <<>>]

AddLimbo(w, id, res) ==
  [w EXCEPT !.fundingLimbo =
     [k \in DOMAIN @ \cup {id} |-> IF k = id THEN res ELSE @[k]]]

DeleteLimbo(w, id) ==
  [w EXCEPT !.fundingLimbo = [k \in DOMAIN @ \ {id} |-> @[k]]]

\* handleFundingReserveRequest: coins is the listing ListUnspentWitness
\* returns, addrFails and keyFails say whether the change address and the
\* later key or address generation fail.
handleFundingReserveRequest(w, fundingAmount, coins, addrFails, keyFails) ==
  LET id == w.nextFundingID + 1
      w1 == [w EXCEPT !.nextFundingID = id]
  IN Only({
       IF sel.err # "none" THEN [w |-> sel.w, err |-> sel.err, id |-> 0]
       ELSE IF keyFails THEN [w |-> sel.w, err |-> "NewRawKey", id |-> 0]
       ELSE [w |-> AddLimbo(sel.w, id,
                     ChannelReservation(id, fundingAmount, sel.inputs,
                                        sel.change)),
             err |-> "none", id |-> id]
       : sel \in {IF fundingAmount # 0
                    THEN selectCoinsAndChange(w1, fundingAmount + commitFee,
                                              coins, addrFails)
                    ELSE [err |-> "none", w |-> w1, inputs |-> <<>>,
                          change |-> 0]}})

\* handleFundingCancelRequest that forgets the reservation and keeps its
\* outpoints locked.
handleFundingCancelRequestKeepLocks(w, pendingFundingID) ==
  IF pendingFundingID \notin DOMAIN w.fundingLimbo
    THEN [w |-> w, err |-> "non-existant funding state"]
    ELSE [w |-> DeleteLimbo(w, pendingFundingID), err |-> "none"]

handleFundingCancelRequest(w, pendingFundingID) ==
  IF pendingFundingID \notin DOMAIN w.fundingLimbo
    THEN [w |-> w, err |-> "non-existant funding state"]
    ELSE [w |-> DeleteLimbo(
                  UnlockAll(w, w.fundingLimbo[pendingFundingID].inputs),
                  pendingFundingID),
          err |-> "none"]

\* handleContributionMsg: the funding transaction is assembled; theirInputs
\* holds, for each funding input of the counterparty, the witness attached
\* to it: "none", or the input script received ("good" passes the script
\* engine, "bad" does not).
handleContributionMsg(w, pendingFundingID, numTheirInputs) ==
  IF pendingFundingID \notin DOMAIN w.fundingLimbo
    THEN [w |-> w, err |-> "non-existant funding state"]
    ELSE [w |-> [w EXCEPT !.fundingLimbo[pendingFundingID].theirInputs =
                     [k \in 1..numTheirInputs |-> "none"]],
          err |-> "none"]

\* The loop of handleFundingCounterPartySigs over the funding inputs, from
\* the counterparty's input k on (our inputs carry our witness and are
\* passed over).
RECURSIVE attachInputScripts(_, _, _, _)
attachInputScripts(theirInputs, inputScripts, k, sigIndex) ==
  IF k > Len(theirInputs)
    THEN [theirInputs |-> theirInputs, err |-> "none"]
  ELSE IF Len(inputScripts) # 0 /\ theirInputs[k] = "none"
    THEN IF sigIndex > Len(inputScripts)
           THEN [theirInputs |-> theirInputs, err |-> "panic"]
         ELSE IF inputScripts[sigIndex] # "good"
           THEN [theirInputs |->
                   [theirInputs EXCEPT ![k] = inputScripts[sigIndex]],
                 err |-> "cannot validate transaction"]
         ELSE attachInputScripts(
                [theirInputs EXCEPT ![k] = inputScripts[sigIndex]],
                inputScripts, k + 1, sigIndex + 1)
  ELSE attachInputScripts(theirInputs, inputScripts, k + 1, sigIndex)

\* The transaction handed to PublishTransaction, as far as verification is
\* concerned: the witnesses on the counterparty's inputs and the
\* counterparty's signature for our commitment transaction.
FundingTx(pendingFundingID, theirInputs, theirCommitmentSig) ==
  [id |-> pendingFundingID, theirInputs |-> theirInputs,
   theirCommitmentSig |-> theirCommitmentSig]

\* What a run of handleFundingCounterPartySigs leaves behind: the wallet, the
\* error sent back, the transactions broadcast and the channels written to
\* the database.
SigsResult(w, err, published, persisted) ==
  [w |-> w, err |-> err, published |-> published, persisted |-> persisted]

\* handleFundingCounterPartySigs; ioFails names the collaborator that fails
\* once the signatures are accepted: "publish" (PublishTransaction), "sync"
\* (FullSync) or "none".
handleFundingCounterPartySigs(w, pendingFundingID, theirFundingInputScripts, theirCommitmentSig, ioFails) ==
  IF pendingFundingID \notin DOMAIN w.fundingLimbo
    THEN SigsResult(w, "non-existant funding state", {}, {})
  ELSE Only({
    IF a.err = "panic"
      THEN SigsResult([w EXCEPT !.crashed = TRUE], "panic", {}, {})
    ELSE Only({
      IF a.err # "none" THEN SigsResult(w1, a.err, {}, {})
      ELSE IF theirCommitmentSig # "good"
        THEN SigsResult(w1,
               "counterparty's commitment signature is invalid", {}, {})
      ELSE IF ioFails = "publish"
        THEN SigsResult(DeleteLimbo(w1, pendingFundingID), "publish", {}, {})
      ELSE Only({
        IF ioFails = "sync" THEN SigsResult(w2, "sync", {tx}, {})
        ELSE SigsResult(w2, "none", {tx}, {pendingFundingID})
        : w2 \in {[DeleteLimbo(w1, pendingFundingID) EXCEPT
              !.unspent = @ \ {w.fundingLimbo[pendingFundingID].inputs[k] :
                 k \in 1..Len(w.fundingLimbo[pendingFundingID].inputs)}]},
          tx \in {FundingTx(pendingFundingID, a.theirInputs,
                            theirCommitmentSig)}})
      : w1 \in {[w EXCEPT !.fundingLimbo[pendingFundingID].theirInputs =
                   a.theirInputs]}})
    : a \in {attachInputScripts(w.fundingLimbo[pendingFundingID].theirInputs,
                                theirFundingInputScripts, 1, 1)}})

\* handleChannelOpen; with an unknown id the handler sends on the channel of
\* a nil reservation, which ends the process.
handleChannelOpen(w, pendingFundingID, syncFails) ==
  IF pendingFundingID \notin DOMAIN w.fundingLimbo
    THEN [w |-> [w EXCEPT !.crashed = TRUE], err |-> "panic"]
    ELSE [w |-> DeleteLimbo(w, pendingFundingID),
          err |-> IF syncFails THEN "sync" ELSE "none"]

\* The open signal of a reservation (chanOpen), by the values handed to it:
\* a one-shot signal takes a value without waiting for its reader.
ChanOpenSend(chanOpen, v) == Append(chanOpen, v)

\* The goroutine of openChannelAfterConfirmations: where it is ("idle"
\* before it is started, "select", "open" after the break out of the
\* select, "exit") and the open signal of its reservation.
Waiter(pc, chanOpen) == [pc |-> pc, chanOpen |-> chanOpen]

\* The select of openChannelAfterConfirmations taking the case ready: a
\* receive from confNtfn.Confirmed, which holds a confirmation ("sent") or
\* is closed, or a receive from the closed quit channel.
selectConfirmedQuitSilent(wt, ready) ==
  IF ready = "Confirmed:sent" THEN Waiter("open", wt.chanOpen)
  ELSE IF ready = "quit" THEN Waiter("exit", wt.chanOpen)
  ELSE Waiter("exit", ChanOpenSend(wt.chanOpen, "nil"))

selectConfirmed(wt, ready) ==
  IF ready = "Confirmed:sent" THEN Waiter("open", wt.chanOpen)
  ELSE Waiter("exit", ChanOpenSend(wt.chanOpen, "nil"))

\* openChannelAfterConfirmations after the select: NewLightningChannel and
\* the hand-off.
openConfirmed(wt) == Waiter("exit", ChanOpenSend(wt.chanOpen, "channel"))

\* ------------------------------------------------------------------------
\* Two parties running one channel over a FIFO link
\* ------------------------------------------------------------------------
\* chan[p]   the LightningChannel of party p
\* net[p]    the wire messages on their way to party p, oldest first
\* last      the channel method that ran last, and what it returned
\* forged    the number of forged wire inputs delivered so far
\* script    the position of the scripted round trips (SpecRound), of the
\*           goroutines (SpecRace) and callers (SpecCoinRace), what has
\*           left the wallet (SpecFunding), the confirmation waiters
\*           (SpecConfirm) and the call of coinSelect (SpecCoinSelect)
\* wallet    the LightningWallet and its wallet controller
VARIABLES chan, net, last, forged, script, wallet

vars == <<chan, net, last, forged, script, wallet>>

NoRev == CommitRevocation(zeroHash, 0, 0)

Msg(type, x, y, sig, rev) ==
  [type |-> type, x |-> x, y |-> y, sig |-> sig, rev |-> rev]

Last(op, p, err, idx) == [op |-> op, p |-> p, err |-> err, idx |-> idx]

Send(p, m) == [net EXCEPT ![Peer(p)] = Append(@, m)]

InFlight == Len(net[1]) + Len(net[2])

Alive(p) == ~chan[p].crashed

\* Add entries present in the two parties' own logs.
PendingAdds ==
  LET Adds(log) == Len(SelectSeq(log, LAMBDA e : e.EntryType = Add))
  IN Adds(chan[1].ourUpdateLog) + Adds(chan[2].ourUpdateLog)

Channels(ourBal, theirBal) ==
  [p \in Party |->
     NewLightningChannel(p,
        IF p = 1 THEN OpenChannel(p, ourBal, theirBal)
                 ELSE OpenChannel(p, theirBal, ourBal))]

\* Session start: each party sends InitialRevocationWindow window extensions,
\* which the peer receives.
RECURSIVE PopulateWindow(_, _, _)
PopulateWindow(chans, p, n) ==
  IF n = 0 THEN chans
  ELSE Only({ Only({ Only({
         PopulateWindow([c EXCEPT ![p] = e.lc, ![Peer(p)] = r.lc], p, n - 1)
         : r \in {ReceiveRevocation(c[Peer(p)], e.msg)}})
         : e \in {ExtendRevocationWindow(c[p])}})
         : c \in {chans}})

SessionStart(chans) ==
  PopulateWindow(PopulateWindow(chans, 1, InitialRevocationWindow),
                 2, InitialRevocationWindow)

\* ---- the steps: one channel method run by party p, its message sent ------
ExtendStep(p) ==
  /\ Alive(p)
  /\ \E r \in {ExtendRevocationWindow(chan[p])} :
        /\ chan' = [chan EXCEPT ![p] = r.lc]
        /\ net' = Send(p, Msg("rev", 0, 0, NoSig, r.msg))
        /\ last' = Last("ExtendRevocationWindow", p, "none", 0)
  /\ UNCHANGED <<forged, wallet>>

AddStep(p, pre, amt) ==
  /\ Alive(p)
  /\ \E r \in {AddHTLC(chan[p], Sha256(pre), amt)} :
        /\ chan' = [chan EXCEPT ![p] = r.lc]
        /\ net' = Send(p, Msg("htlc", Sha256(pre), amt, NoSig, NoRev))
        /\ last' = Last("AddHTLC", p, "none", r.idx)
  /\ UNCHANGED <<forged, wallet>>

SettleStep(p, pre) ==
  /\ Alive(p)
  /\ \E r \in {SettleHTLC(chan[p], pre)} :
        /\ chan' = [chan EXCEPT ![p] = r.lc]
        /\ net' = IF r.err = "none"
                    THEN Send(p, Msg("settle", pre, r.idx, NoSig, NoRev))
                    ELSE net
        /\ last' = Last("SettleHTLC", p, r.err, r.idx)
  /\ UNCHANGED <<forged, wallet>>

SignStep(p) ==
  /\ Alive(p)
  /\ \E r \in {SignNextCommitment(chan[p])} :
        /\ chan' = [chan EXCEPT ![p] = r.lc]
        /\ net' = IF r.err = "none"
                    THEN Send(p, Msg("sig", 0, r.idx, r.sig, NoRev))
                    ELSE net
        /\ last' = Last("SignNextCommitment", p, r.err, r.idx)
  /\ UNCHANGED <<forged, wallet>>

\* RevokeCurrentCommitment is called directly after a new commitment has
\* been received, that is with a commitment pending above the local tail.
RevokeStep(p) ==
  /\ Alive(p)
  /\ Len(chan[p].localCommitChain) > 1
  /\ \E r \in {RevokeCurrentCommitment(chan[p])} :
        /\ chan' = [chan EXCEPT ![p] = r.lc]
        /\ net' = IF r.err = "none"
                    THEN Send(p, Msg("rev", 0, 0, NoSig, r.msg))
                    ELSE net
        /\ last' = Last("RevokeCurrentCommitment", p, r.err, 0)
  /\ UNCHANGED <<forged, wallet>>

\* The outcome of handing wire message m to party p's channel.
Handle(lc, m) ==
  CASE m.type = "htlc" ->
         Only({[lc |-> r.lc, op |-> "ReceiveHTLC", err |-> "none",
                idx |-> r.idx]
               : r \in {ReceiveHTLC(lc, m.x, m.y)}})
    [] m.type = "settle" ->
         Only({[lc |-> r.lc, op |-> "ReceiveHTLCSettle", err |-> r.err,
                idx |-> m.y]
               : r \in {ReceiveHTLCSettle(lc, m.x, m.y)}})
    [] m.type = "sig" ->
         Only({[lc |-> r.lc, op |-> "ReceiveNewCommitment", err |-> r.err,
                idx |-> m.y]
               : r \in {ReceiveNewCommitment(lc, m.sig, m.y)}})
    [] m.type = "rev" ->
         Only({[lc |-> r.lc, op |-> "ReceiveRevocation", err |-> r.err,
                idx |-> Len(r.fwd)]
               : r \in {ReceiveRevocation(lc, m.rev)}})
    [] m.type = "close" ->
         Only({[lc |-> r.lc, op |-> "CompleteCooperativeClose",
                err |-> r.err, idx |-> 0]
               : r \in {CompleteCooperativeClose(lc, m.sig)}})

DeliverStep(p) ==
  /\ Alive(p)
  /\ net[p] # <<>>
  /\ \E r \in {Handle(chan[p], Head(net[p]))} :
        /\ chan' = [chan EXCEPT ![p] = r.lc]
        /\ last' = Last(r.op, p, r.err, r.idx)
  /\ net' = [net EXCEPT ![p] = Tail(@)]
  /\ UNCHANGED <<forged, wallet>>

\* ------------------------------------------------------------------------
\* Spec: the open channel after session start, any interleaving of the two
\* parties' updates
\* ------------------------------------------------------------------------
Init ==
  /\ chan = SessionStart(Channels(Funding.our, Funding.their))
  /\ net = [p \in Party |-> <<>>]
  /\ last = Last("init", 0, "none", 0)
  /\ forged = 0
  /\ wallet = NewLightningWallet
  /\ script = 0

DoAddHTLC(p) ==
  /\ InFlight < MaxInFlight
  /\ PendingAdds < MaxPendingAdds
  /\ \E pre \in PaymentPreimages, amt \in HTLCAmounts : AddStep(p, pre, amt)
  /\ UNCHANGED script

DoSettleHTLC(p) ==
  /\ InFlight < MaxInFlight
  /\ \E pre \in PaymentPreimages : SettleStep(p, pre)
  /\ UNCHANGED script

SignBelow(p, maxHeight) ==
  /\ InFlight < MaxInFlight
  /\ tip(chan[p].remoteCommitChain).height < maxHeight
  /\ SignStep(p)
  /\ UNCHANGED script

DoSignNextCommitment(p) == SignBelow(p, MaxChainHeight)

DoRevokeCurrentCommitment(p) ==
  /\ InFlight < MaxInFlight
  /\ RevokeStep(p)
  /\ UNCHANGED script

Deliver(p) ==
  /\ DeliverStep(p)
  /\ UNCHANGED script

Next ==
  \E p \in Party :
    \/ DoAddHTLC(p)
    \/ DoSettleHTLC(p)
    \/ DoSignNextCommitment(p)
    \/ DoRevokeCurrentCommitment(p)
    \/ Deliver(p)

Spec == Init /\ [][Next]_vars

\* ------------------------------------------------------------------------
\* SpecFaulty: the same channel with forged inputs arriving from the wire
\* ------------------------------------------------------------------------
FaultySignNextCommitment(p) == SignBelow(p, MaxFaultyHeight)

\* A revocation message whose pre-image the peer's elkrem sender never
\* produced arrives from the wire.
ReceiveForgedRevocation(p) ==
  /\ Alive(p)
  /\ forged < MaxBadInputs
  /\ \E r \in {ReceiveRevocation(chan[p],
                 CommitRevocation(ForgedPreimage,
                    deriveRevocationPubkey(CommitKey(p), ForgedPreimage),
                    Sha256(ForgedPreimage)))} :
        /\ chan' = [chan EXCEPT ![p] = r.lc]
        /\ last' = Last("ReceiveRevocation", p, r.err, Len(r.fwd))
  /\ forged' = forged + 1
  /\ UNCHANGED <<net, script, wallet>>

\* A commitment signature that does not parse or verify arrives from the wire.
ReceiveBadCommitment(p) ==
  /\ Alive(p)
  /\ forged < MaxBadInputs
  /\ \E idx \in 0..chan[p].ourLogCounter :
       \E r \in {ReceiveNewCommitment(chan[p], NoSig, idx)} :
          /\ chan' = [chan EXCEPT ![p] = r.lc]
          /\ last' = Last("ReceiveNewCommitment", p, r.err, idx)
  /\ forged' = forged + 1
  /\ UNCHANGED <<net, script, wallet>>

NextFaulty ==
  \E p \in Party :
    \/ DoAddHTLC(p)
    \/ DoSettleHTLC(p)
    \/ FaultySignNextCommitment(p)
    \/ DoRevokeCurrentCommitment(p)
    \/ Deliver(p)
    \/ ReceiveForgedRevocation(p)
    \/ ReceiveBadCommitment(p)

SpecFaulty == Init /\ [][NextFaulty]_vars

\* ---------------------------------------------------------------------
\* A peer that keeps sending commitments: each signature is the peer's, over
\* the transaction ReceiveNewCommitment builds for it, and none of them is
\* answered with a revocation.
\* ---------------------------------------------------------------------

ReceiveCraftedCommitment(p) ==
  /\ Alive(p)
  /\ tip(chan[p].localCommitChain).height < MaxFlood
  /\ \E idx \in 0..chan[p].ourLogCounter :
       \E v \in {fetchCommitmentView(chan[p], FALSE, idx,
                     chan[p].theirLogCounter,
                     deriveRevocationPubkey(CommitKey(Peer(p)),
                        AtIndex(p, chan[p].currentHeight + 1)),
                     Sha256(AtIndex(p, chan[p].currentHeight + 1)))} :
         /\ ~v.panic
         /\ \E r \in {ReceiveNewCommitment(chan[p],
                         SignTx(MultiSigKey(Peer(p)), v.view.txn), idx)} :
              /\ chan' = [chan EXCEPT ![p] = r.lc]
              /\ last' = Last("ReceiveNewCommitment", p, r.err, idx)
  /\ UNCHANGED <<net, forged, script, wallet>>

NextFlood ==
  \E p \in Party :
    \/ DoAddHTLC(p)
    \/ Deliver(p)
    \/ ReceiveCraftedCommitment(p)

SpecFlood == Init /\ [][NextFlood]_vars

\* ---------------------------------------------------------------------
\* One HTLC flow with the messages handled one at a time: party 1 offers,
\* party 2 settles, and either party signs and revokes whenever it likes,
\* so that the two chains of a party need not be at the same height.
\* ---------------------------------------------------------------------

SerialAddHTLC ==
  /\ InFlight = 0
  /\ chan[1].ourLogCounter = 0
  /\ \E pre \in PaymentPreimages, amt \in HTLCAmounts : AddStep(1, pre, amt)
  /\ UNCHANGED script

SerialSettleHTLC ==
  /\ InFlight = 0
  /\ \E pre \in PaymentPreimages : SettleStep(2, pre)
  /\ UNCHANGED script

SerialSign(p) ==
  /\ InFlight = 0
  /\ tip(chan[p].remoteCommitChain).height < MaxChainHeight
  /\ SignStep(p)
  /\ UNCHANGED script

SerialRevoke(p) ==
  /\ InFlight = 0
  /\ RevokeStep(p)
  /\ UNCHANGED script

SerialDeliver(p) ==
  /\ DeliverStep(p)
  /\ UNCHANGED script

NextSerial ==
  \/ SerialAddHTLC
  \/ SerialSettleHTLC
  \/ \E p \in Party : SerialSign(p)
  \/ \E p \in Party : SerialRevoke(p)
  \/ \E p \in Party : SerialDeliver(p)

SpecSerial == Init /\ [][NextSerial]_vars

\* ------------------------------------------------------------------------
\* SpecWindow: the channel from construction; the parties hand out their
\* revocation windows and sign ahead of any revocation
\* ------------------------------------------------------------------------
InitWindow ==
  /\ chan = Channels(Funding.our, Funding.their)
  /\ net = [p \in Party |-> <<>>]
  /\ last = Last("init", 0, "none", 0)
  /\ forged = 0
  /\ wallet = NewLightningWallet
  /\ script = 0

WindowPreimages == {1}

WindowAmounts == {1}

Pipelined(p) == InFlight < MaxPipelined

WindowExtend(p) ==
  /\ Pipelined(p)
  /\ chan[p].revocationWindowEdge < MaxWindowEdge
  /\ ExtendStep(p)
  /\ UNCHANGED script

WindowAddHTLC(p) ==
  /\ Pipelined(p)
  /\ PendingAdds < MaxPendingAdds
  /\ \E pre \in WindowPreimages, amt \in WindowAmounts : AddStep(p, pre, amt)
  /\ UNCHANGED script

WindowSign(p) ==
  /\ Pipelined(p)
  /\ SignStep(p)
  /\ UNCHANGED script

WindowDeliver(p) ==
  /\ DeliverStep(p)
  /\ UNCHANGED script

\* Party 1 is the signing side, party 2 the side that receives its
\* signatures; both queue HTLCs, extend the window and take deliveries.
NextWindow ==
  \/ \E p \in Party : WindowExtend(p)
  \/ \E p \in Party : WindowAddHTLC(p)
  \/ WindowSign(1)
  \/ \E p \in Party : WindowDeliver(p)

SpecWindow == InitWindow /\ [][NextWindow]_vars


\* ------------------------------------------------------------------------
\* SpecRound: one payment carried through the documented workflow: the adder
\* adds an HTLC, a round trip in each direction locks it in, the peer
\* settles it, and a round in each direction removes it
\* ------------------------------------------------------------------------
RoundFunding == {f \in (1..MaxFunding) \X (0..MaxFunding) : TRUE}

InitRound ==
  \E f \in RoundFunding, adder \in Party :
    /\ chan = SessionStart(IF adder = 1 THEN Channels(f[1], f[2])
                                        ELSE Channels(f[2], f[1]))
    /\ net = [p \in Party |-> <<>>]
    /\ last = Last("init", 0, "none", 0)
    /\ forged = 0
    /\ wallet = NewLightningWallet
    /\ script = [phase |-> "add", step |-> 0, adder |-> adder,
                 o |-> f[1], t |-> f[2], a |-> 0, pre |-> 0, signed |-> {},
                 revoked |-> {}, late |-> {}]

Adder == script.adder

Settler == Peer(script.adder)

\* The signer of the round trip the lock-in phase is in: the adder first.
LockSigner == IF script.step < 4 THEN Adder ELSE Settler

ScriptAddHTLC ==
  /\ script.phase = "add" /\ script.step = 0
  /\ \E pre \in PaymentPreimages, amt \in HTLCAmounts :
       /\ amt <= script.o
       /\ AddStep(Adder, pre, amt)
       /\ script' = [script EXCEPT !.step = 1, !.a = amt, !.pre = pre]

ScriptReceiveHTLC ==
  /\ script.phase = "add" /\ script.step = 1
  /\ DeliverStep(Settler)
  /\ script' = [script EXCEPT !.phase = "lock", !.step = 0]

LockSign ==
  /\ script.phase = "lock" /\ script.step \in {0, 4}
  /\ SignStep(LockSigner)
  /\ script' = [script EXCEPT !.step = @ + 1]

LockReceive ==
  /\ script.phase = "lock" /\ script.step \in {1, 5}
  /\ DeliverStep(Peer(LockSigner))
  /\ script' = [script EXCEPT !.step = @ + 1]

LockRevoke ==
  /\ script.phase = "lock" /\ script.step \in {2, 6}
  /\ RevokeStep(Peer(LockSigner))
  /\ script' = [script EXCEPT !.step = @ + 1]

LockReceiveRevocation ==
  /\ script.phase = "lock" /\ script.step \in {3, 7}
  /\ DeliverStep(LockSigner)
  /\ script' = [script EXCEPT !.step = @ + 1]

ScriptSettleHTLC ==
  /\ script.phase = "lock" /\ script.step = 8
  /\ SettleStep(Settler, script.pre)
  /\ script' = [script EXCEPT !.phase = "settle", !.step = 0]

ScriptReceiveHTLCSettle ==
  /\ script.phase = "settle"
  /\ DeliverStep(Adder)
  /\ script' = [script EXCEPT !.phase = "close"]

\* The closing rounds: each party signs once, receives the peer's
\* commitment, revokes, and receives the peer's revocation; the two rounds
\* run one after the other or overlap.
CloseSign(p) ==
  /\ script.phase = "close"
  /\ p \notin script.signed
  /\ SignStep(p)
  /\ script' = [script EXCEPT !.signed = @ \cup {p}]

\* script.late collects the parties that receive the peer's revocation
\* before they have revoked themselves.
CloseDeliver(p) ==
  /\ script.phase = "close"
  /\ DeliverStep(p)
  /\ script' = IF Head(net[p]).type = "rev" /\ p \notin script.revoked
                 THEN [script EXCEPT !.late = @ \cup {p}]
                 ELSE script

CloseRevoke(p) ==
  /\ script.phase = "close"
  /\ RevokeStep(p)
  /\ script' = [script EXCEPT !.revoked = @ \cup {p}]

NextRound ==
  \/ ScriptAddHTLC
  \/ ScriptReceiveHTLC
  \/ LockSign
  \/ LockReceive
  \/ LockRevoke
  \/ LockReceiveRevocation
  \/ ScriptSettleHTLC
  \/ ScriptReceiveHTLCSettle
  \/ \E p \in Party : CloseSign(p) \/ CloseDeliver(p) \/ CloseRevoke(p)

SpecRound == InitRound /\ [][NextRound]_vars

\* Both closing rounds have run to their end.
RoundsDone ==
  /\ script.phase = "close"
  /\ script.signed = Party
  /\ InFlight = 0
  /\ \A p \in Party : /\ Len(chan[p].localCommitChain) = 1
                      /\ Len(chan[p].remoteCommitChain) = 1


\* ------------------------------------------------------------------------
\* SpecSettle: the parties add HTLCs, with equal or different payment
\* hashes, and settle them with any pre-image, before any commitment
\* ------------------------------------------------------------------------
SettleAdd(p) ==
  /\ Pipelined(p)
  /\ PendingAdds < MaxSettleAdds
  /\ \E pre \in PaymentPreimages, amt \in HTLCAmounts : AddStep(p, pre, amt)
  /\ UNCHANGED script

SettleSettle(p) ==
  /\ Pipelined(p)
  /\ \E pre \in PaymentPreimages : SettleStep(p, pre)
  /\ UNCHANGED script

SettleDeliver(p) ==
  /\ DeliverStep(p)
  /\ UNCHANGED script

NextSettle ==
  \E p \in Party :
    \/ SettleAdd(p)
    \/ SettleSettle(p)
    \/ SettleDeliver(p)

SpecSettle == Init /\ [][NextSettle]_vars


\* ------------------------------------------------------------------------
\* SpecSettleAny: the parties add HTLCs, and settle messages that carry any
\* pre-image and any log index reach ReceiveHTLCSettle
\* ------------------------------------------------------------------------
ReceivedSettles(p) ==
  Len(SelectSeq(chan[p].theirUpdateLog, LAMBDA e : e.EntryType = Settle))

AnyAddHTLC(p) ==
  /\ InFlight < MaxInFlight
  /\ PendingAdds < MaxPendingAdds
  /\ \E pre \in PaymentPreimages, amt \in HTLCAmounts : AddStep(p, pre, amt)
  /\ UNCHANGED script

AnySettleMessage(p) ==
  /\ InFlight < MaxInFlight
  /\ ReceivedSettles(p) < MaxPendingAdds
  /\ \E pre \in PaymentPreimages, logIndex \in 0..MaxPendingAdds :
       net' = [net EXCEPT
                 ![p] = Append(@, Msg("settle", pre, logIndex, NoSig, NoRev))]
  /\ UNCHANGED <<chan, last, forged, script, wallet>>

NextSettleAny ==
  \E p \in Party :
    \/ AnyAddHTLC(p)
    \/ AnySettleMessage(p)
    \/ SettleDeliver(p)

SpecSettleAny == Init /\ [][NextSettleAny]_vars


\* ------------------------------------------------------------------------
\* SpecClose: either party may start a cooperative close while HTLCs are
\* added, settled and signed; the close signature travels to the peer,
\* which completes the close
\* ------------------------------------------------------------------------
CloseInitStep(p) ==
  /\ Alive(p)
  /\ \E r \in {InitCooperativeClose(chan[p])} :
        /\ chan' = [chan EXCEPT ![p] = r.lc]
        /\ net' = IF r.err = "none"
                    THEN Send(p, Msg("close", 0, 0, r.sig, NoRev))
                    ELSE net
        /\ last' = Last("InitCooperativeClose", p, r.err, 0)
  /\ UNCHANGED <<forged, wallet>>

ClosingInit(p) ==
  /\ InFlight < MaxInFlight
  /\ CloseInitStep(p)
  /\ UNCHANGED script

\* A close signature that is not the peer's arrives from the wire.
ClosingBadSig(p) ==
  /\ InFlight < MaxInFlight
  /\ forged < MaxBadInputs
  /\ forged' = forged + 1
  /\ net' = [net EXCEPT ![p] = Append(@, Msg("close", 0, 0, NoSig, NoRev))]
  /\ UNCHANGED <<chan, last, script, wallet>>

ClosingAddHTLC(p) ==
  /\ InFlight < MaxInFlight
  /\ PendingAdds < MaxPendingAdds
  /\ \E pre \in WindowPreimages, amt \in WindowAmounts : AddStep(p, pre, amt)
  /\ UNCHANGED script

ClosingSettleHTLC(p) ==
  /\ InFlight < MaxInFlight
  /\ \E pre \in WindowPreimages : SettleStep(p, pre)
  /\ UNCHANGED script

ClosingSign(p) == SignBelow(p, MaxFaultyHeight)

ClosingDeliver(p) ==
  /\ DeliverStep(p)
  /\ UNCHANGED script

\* Either party closes; party 1 is the side that offers and signs, party 2
\* the side that settles.
NextClose ==
  \/ \E p \in Party : ClosingInit(p)
  \/ \E p \in Party : ClosingBadSig(p)
  \/ ClosingAddHTLC(1)
  \/ ClosingSettleHTLC(2)
  \/ ClosingSign(1)
  \/ \E p \in Party : ClosingDeliver(p)

SpecClose == Init /\ [][NextClose]_vars


\* ------------------------------------------------------------------------
\* SpecRace: goroutines call methods of one channel at the same time.  Only
\* InitCooperativeClose and CompleteCooperativeClose take the channel's
\* mutex; the other methods run unguarded, statement by statement
\* ------------------------------------------------------------------------
Goroutines == {1, 2}

RacingParty == FirstPos(Party)

Goroutine(pc, pd, tmp, view, rev) ==
  [pc |-> pc, pd |-> pd, tmp |-> tmp, view |-> view, rev |-> rev]

IdleGoroutine == Goroutine("idle", 0, 0, 0, 0)

InitRace ==
  /\ chan = SessionStart(Channels(Funding.our, Funding.their))
  /\ net = [p \in Party |-> <<>>]
  /\ last = Last("init", 0, "none", 0)
  /\ forged = 0
  /\ wallet = NewLightningWallet
  /\ script = [g |-> [g \in Goroutines |-> IdleGoroutine],
               calls |-> [g \in Goroutines |-> 0], mu |-> 0]

RaceChan == chan[RacingParty]

\* Goroutine g is between two statements of a method.
InCall(g) == script.g[g].pc # "idle"

CallStarts(g) ==
  /\ ~RaceChan.crashed
  /\ script.g[g].pc = "idle"
  /\ script.calls[g] < MaxRaceCalls

RaceStep(g, lc, local, started) ==
  /\ chan' = [chan EXCEPT ![RacingParty] = lc]
  /\ script' = [script EXCEPT !.g[g] = local,
                              !.calls[g] = IF started THEN @ + 1 ELSE @]
  /\ UNCHANGED <<net, forged, wallet>>

\* The peer's HTLC arrives while no call is running.
RaceReceiveHTLC ==
  /\ \A g \in Goroutines : ~InCall(g)
  /\ Len(RaceChan.theirUpdateLog) < MaxPendingAdds
  /\ \E pre \in WindowPreimages, amt \in WindowAmounts :
       \E r \in {ReceiveHTLC(RaceChan, Sha256(pre), amt)} :
          chan' = [chan EXCEPT ![RacingParty] = r.lc]
  /\ last' = Last("ReceiveHTLC", RacingParty, "none", 0)
  /\ UNCHANGED <<net, forged, wallet, script>>

\* AddHTLC: pd := &PaymentDescriptor{..., Index: lc.ourLogCounter}
AddHTLCDescribe(g) ==
  /\ CallStarts(g)
  /\ \E pre \in WindowPreimages, amt \in WindowAmounts :
       RaceStep(g, RaceChan,
                Goroutine("push", PaymentDescriptor(Add, Sha256(pre), amt,
                                     RaceChan.ourLogCounter, 0), 0, 0, 0),
                TRUE)
  /\ last' = Last("AddHTLC", RacingParty, "running", g)

\* SettleHTLC: the scan over their log, then pd := &PaymentDescriptor{...}
SettleHTLCDescribe(g) ==
  /\ CallStarts(g)
  /\ \E pre \in WindowPreimages :
       \E r \in {SettleHTLC(RaceChan, pre)} :
          IF r.err # "none"
            THEN /\ RaceStep(g, RaceChan, IdleGoroutine, TRUE)
                 /\ last' = Last("SettleHTLC", RacingParty, r.err, g)
            ELSE /\ RaceStep(g,
                       [RaceChan EXCEPT !.theirUpdateLog = r.lc.theirUpdateLog],
                       Goroutine("push",
                          r.lc.ourUpdateLog[Len(r.lc.ourUpdateLog)], 0, 0, 0),
                       TRUE)
                 /\ last' = Last("SettleHTLC", RacingParty, "running", g)

\* lc.ourUpdateLog.PushBack(pd), and for an Add the index entry
LogPushBack(g) ==
  /\ script.g[g].pc = "push"
  /\ LET pd == script.g[g].pd
     IN RaceStep(g,
          [RaceChan EXCEPT
             !.ourUpdateLog = Append(@, pd),
             !.ourLogIndex = IF pd.EntryType = Add THEN @ \cup {pd.Index}
                             ELSE @],
          [script.g[g] EXCEPT !.pc = "load"], FALSE)
  /\ UNCHANGED last

\* lc.ourLogCounter++ : the load
CounterLoad(g) ==
  /\ script.g[g].pc = "load"
  /\ RaceStep(g, RaceChan,
              [script.g[g] EXCEPT !.pc = "store",
                                  !.tmp = RaceChan.ourLogCounter], FALSE)
  /\ UNCHANGED last

\* lc.ourLogCounter++ : the store, and the return of pd.Index
CounterStore(g) ==
  /\ script.g[g].pc = "store"
  /\ RaceStep(g, [RaceChan EXCEPT !.ourLogCounter = script.g[g].tmp + 1],
              IdleGoroutine, FALSE)
  /\ last' = Last(IF script.g[g].pd.EntryType = Add THEN "AddHTLC"
                  ELSE "SettleHTLC",
                  RacingParty, "none", script.g[g].pd.Index)

\* SignNextCommitment up to the signature: the window test and
\* fetchCommitmentView, which stamps the log entries it includes.
SignBuildView(g) ==
  /\ CallStarts(g)
  /\ tip(RaceChan.remoteCommitChain).height < MaxFaultyHeight
  /\ \E r \in {SignNextCommitment(RaceChan)} :
       IF r.err # "none"
         THEN /\ RaceStep(g, r.lc, IdleGoroutine, TRUE)
              /\ last' = Last("SignNextCommitment", RacingParty, r.err, g)
         ELSE /\ RaceStep(g,
                   [RaceChan EXCEPT !.ourUpdateLog = r.lc.ourUpdateLog,
                                    !.theirUpdateLog = r.lc.theirUpdateLog],
                   Goroutine("extend", 0, 0, tip(r.lc.remoteCommitChain),
                             RaceChan.revocationWindow[1]),
                   TRUE)
              /\ last' = Last("SignNextCommitment", RacingParty, "running", g)

\* SignNextCommitment from addCommitment to its return.
SignExtendChain(g) ==
  /\ script.g[g].pc = "extend"
  /\ RaceStep(g,
       IF Len(RaceChan.revocationWindow) = 0 THEN Crash(RaceChan)
       ELSE [RaceChan EXCEPT
               !.remoteCommitChain = addCommitment(@, script.g[g].view),
               !.usedRevocations = Append(@, script.g[g].rev),
               !.revocationWindow = Tail(@)],
       IdleGoroutine, FALSE)
  /\ last' = Last("SignNextCommitment", RacingParty, "none", g)

\* InitCooperativeClose: lc.Lock()
CloseLock(g) ==
  /\ CallStarts(g)
  /\ script.mu = 0
  /\ chan' = chan
  /\ script' = [script EXCEPT !.g[g] = Goroutine("locked", 0, 0, 0, 0),
                              !.calls[g] = @ + 1, !.mu = g]
  /\ UNCHANGED <<net, forged, wallet, last>>

\* InitCooperativeClose: the body, and the deferred lc.Unlock()
CloseUnlock(g) ==
  /\ script.g[g].pc = "locked"
  /\ \E r \in {InitCooperativeClose(RaceChan)} :
       /\ chan' = [chan EXCEPT ![RacingParty] = r.lc]
       /\ last' = Last("InitCooperativeClose", RacingParty, r.err, g)
  /\ script' = [script EXCEPT !.g[g] = IdleGoroutine, !.mu = 0]
  /\ UNCHANGED <<net, forged, wallet>>

NextRace ==
  \/ RaceReceiveHTLC
  \/ \E g \in Goroutines :
       \/ AddHTLCDescribe(g)
       \/ SettleHTLCDescribe(g)
       \/ LogPushBack(g)
       \/ CounterLoad(g)
       \/ CounterStore(g)
       \/ SignBuildView(g)
       \/ SignExtendChain(g)
       \/ CloseLock(g)
       \/ CloseUnlock(g)

SpecRace == InitRace /\ [][NextRace]_vars


\* ------------------------------------------------------------------------
\* SpecWallet: clients queue funding requests on msgChan; the single
\* requestHandler goroutine takes them one at a time
\* ------------------------------------------------------------------------
InitWallet ==
  /\ chan = Channels(Funding.our, Funding.their)
  /\ net = [p \in Party |-> <<>>]
  /\ last = Last("init", 0, "none", 0)
  /\ forged = 0
  /\ script = 0
  /\ wallet = NewLightningWallet

Enqueue(m) ==
  /\ ~wallet.crashed
  /\ Len(wallet.msgChan) < MaxQueued
  /\ wallet' = [wallet EXCEPT !.msgChan = Append(@, m)]
  /\ UNCHANGED <<chan, net, last, forged, script>>

Request(type, amount, id) == [type |-> type, amount |-> amount, id |-> id]

\* InitChannelReservation: the requests ever queued are capped.
InitChannelReservation ==
  /\ wallet.nextFundingID
       + Len(SelectSeq(wallet.msgChan, LAMBDA m : m.type = "init"))
       < MaxReservations
  /\ \E amount \in 0..MaxFundingAmount : Enqueue(Request("init", amount, 0))

CancelReservation ==
  \E id \in 1..MaxReservations : Enqueue(Request("cancel", 0, id))

CompleteReservation ==
  \E id \in 1..MaxReservations : Enqueue(Request("sigs", 0, id))

OpenChannelRequest ==
  \E id \in 1..MaxReservations : Enqueue(Request("open", 0, id))

Head1(w) == [w EXCEPT !.msgChan = Tail(@)]

\* The handler's reply; id is the reservation id handed out by a funding
\* request, and for a cancellation the number of outpoints it released.
Handled(op, r, id) ==
  /\ wallet' = r.w
  /\ last' = Last(op, 0, r.err, id)
  /\ UNCHANGED <<chan, net, forged, script>>

\* requestHandler: one iteration of the loop, by message type.
DispatchReserve ==
  /\ ~wallet.crashed /\ wallet.msgChan # <<>>
  /\ Head(wallet.msgChan).type = "init"
  /\ \E coins \in ListUnspentWitness(wallet), addrFails, keyFails \in BOOLEAN :
       \E r \in {handleFundingReserveRequest(Head1(wallet),
                    Head(wallet.msgChan).amount, coins, addrFails,
                    keyFails)} :
          Handled("handleFundingReserveRequest", r, r.id)

DispatchCancel ==
  /\ ~wallet.crashed /\ wallet.msgChan # <<>>
  /\ Head(wallet.msgChan).type = "cancel"
  /\ \E r \in {handleFundingCancelRequest(Head1(wallet),
                                          Head(wallet.msgChan).id)} :
       Handled("handleFundingCancelRequest", r,
               Cardinality(wallet.locked \ r.w.locked))

DispatchSigs ==
  /\ ~wallet.crashed /\ wallet.msgChan # <<>>
  /\ Head(wallet.msgChan).type = "sigs"
  /\ \E scripts \in {<<>>}, sig \in ScriptValues, ioFails \in IOFailures :
       \E r \in {handleFundingCounterPartySigs(Head1(wallet),
                    Head(wallet.msgChan).id, scripts, sig, ioFails)} :
          Handled("handleFundingCounterPartySigs", r, 0)

DispatchOpen ==
  /\ ~wallet.crashed /\ wallet.msgChan # <<>>
  /\ Head(wallet.msgChan).type = "open"
  /\ \E syncFails \in BOOLEAN :
       \E r \in {handleChannelOpen(Head1(wallet), Head(wallet.msgChan).id,
                                   syncFails)} :
          Handled("handleChannelOpen", r, 0)

NextWallet ==
  \/ InitChannelReservation
  \/ CancelReservation
  \/ CompleteReservation
  \/ OpenChannelRequest
  \/ DispatchReserve
  \/ DispatchCancel
  \/ DispatchSigs
  \/ DispatchOpen

SpecWallet == InitWallet /\ [][NextWallet]_vars

\* ------------------------------------------------------------------------
\* SpecCoinRace: two callers of InitChannelReservation run at the same
\* time; their requests meet on msgChan and the requestHandler goroutine
\* serves them in the order they arrived
\* ------------------------------------------------------------------------
Callers == {1, 2}

RECURSIVE SumValues(_)
SumValues(os) ==
  IF os = {} THEN 0
  ELSE LET o == CHOOSE x \in os : TRUE
       IN CoinValue(o) + SumValues(os \ {o})

\* The wallet's free balance: unlocked unspent outpoints of the active asset.
FreeBalance(w) ==
  SumValues({o \in w.unspent \ w.locked : CoinAsset(o) = ActiveAsset})

InitCoinRace ==
  /\ chan = SessionStart(Channels(Funding.our, Funding.their))
  /\ net = [p \in Party |-> <<>>]
  /\ last = Last("init", 0, "none", 0)
  /\ forged = 0
  /\ wallet = NewLightningWallet
  /\ \E amt \in [Callers -> 1..FreeBalance(NewLightningWallet)] :
       script = [amt |-> amt,
                 pc |-> [c \in Callers |-> "start"],
                 err |-> [c \in Callers |-> "none"],
                 id |-> [c \in Callers |-> 0]]

\* InitChannelReservation by caller c: the send on msgChan.
CallerSends(c) ==
  /\ script.pc[c] = "start"
  /\ wallet' = [wallet EXCEPT
                  !.msgChan = Append(@, Request("init", script.amt[c], c))]
  /\ script' = [script EXCEPT !.pc[c] = "waiting"]
  /\ UNCHANGED <<chan, net, last, forged>>

\* requestHandler serves the request at the head of msgChan and answers on
\* the request's own err and resp channels.
CallerServed(c) ==
  /\ wallet.msgChan # <<>>
  /\ Head(wallet.msgChan).id = c
  /\ \E coins \in ListUnspentWitness(wallet), addrFails, keyFails \in BOOLEAN :
       \E r \in {handleFundingReserveRequest(Head1(wallet),
                    Head(wallet.msgChan).amount, coins, addrFails,
                    keyFails)} :
          /\ wallet' = r.w
          /\ last' = Last("handleFundingReserveRequest", 0, r.err, r.id)
          /\ script' = [script EXCEPT !.pc[c] = "answered",
                                      !.err[c] = r.err, !.id[c] = r.id]
  /\ UNCHANGED <<chan, net, forged>>

\* InitChannelReservation returns to caller c.
CallerReturns(c) ==
  /\ script.pc[c] = "answered"
  /\ script' = [script EXCEPT !.pc[c] = "done"]
  /\ UNCHANGED <<chan, net, last, forged, wallet>>

NextCoinRace ==
  \E c \in Callers :
    \/ CallerSends(c)
    \/ CallerServed(c)
    \/ CallerReturns(c)

SpecCoinRace == InitCoinRace /\ [][NextCoinRace]_vars

\* ---------------------------------------------------------------------
\* The funding workflow of one caller: InitChannelReservation, the
\* counterparty's contribution, CompleteReservation and Cancel, each call
\* returning once the dispatcher has run its handler.  script records what
\* has left the wallet: the transactions broadcast and the channels
\* written to the database.
\* ---------------------------------------------------------------------

InitFunding ==
  /\ chan = Channels(Funding.our, Funding.their)
  /\ net = [p \in Party |-> <<>>]
  /\ last = Last("init", 0, "none", 0)
  /\ forged = 0
  /\ script = [broadcast |-> {}, persisted |-> {}]
  /\ wallet = NewLightningWallet

\* The ids a caller may pass: every id handed out so far and one that was not.
FundingIDs == 1..(wallet.nextFundingID + 1)

FundingReserve ==
  /\ ~wallet.crashed
  /\ wallet.nextFundingID < MaxFundingFlows
  /\ \E amount \in 1..MaxFundingAmount :
     \E coins \in ListUnspentWitness(wallet), addrFails, keyFails \in BOOLEAN :
       \E r \in {handleFundingReserveRequest(wallet, amount, coins,
                                             addrFails, keyFails)} :
          /\ wallet' = r.w
          /\ last' = Last("handleFundingReserveRequest", 0, r.err, r.id)
  /\ UNCHANGED <<chan, net, forged, script>>

FundingContribution ==
  /\ ~wallet.crashed
  /\ \E id \in FundingIDs, numTheirInputs \in 0..MaxTheirInputs :
       \E r \in {handleContributionMsg(wallet, id, numTheirInputs)} :
          /\ wallet' = r.w
          /\ last' = Last("handleContributionMsg", 0, r.err, id)
  /\ UNCHANGED <<chan, net, forged, script>>

FundingSigs ==
  /\ ~wallet.crashed
  /\ \E id \in FundingIDs, scripts \in InputScripts :
     \E sig \in ScriptValues, ioFails \in IOFailures :
       \E r \in {handleFundingCounterPartySigs(wallet, id, scripts, sig,
                                               ioFails)} :
          /\ wallet' = r.w
          /\ script' = [broadcast |-> script.broadcast \cup r.published,
                        persisted |-> script.persisted \cup r.persisted]
          /\ last' = Last("handleFundingCounterPartySigs", 0, r.err, id)
  /\ UNCHANGED <<chan, net, forged>>

FundingCancel ==
  /\ ~wallet.crashed
  /\ \E id \in FundingIDs :
       \E r \in {handleFundingCancelRequest(wallet, id)} :
          /\ wallet' = r.w
          /\ last' = Last("handleFundingCancelRequest", 0, r.err, id)
  /\ UNCHANGED <<chan, net, forged, script>>

NextFunding ==
  \/ FundingReserve
  \/ FundingContribution
  \/ FundingSigs
  \/ FundingCancel

SpecFunding == InitFunding /\ [][NextFunding]_vars

\* ---------------------------------------------------------------------
\* The confirmation waiters of completed reservations, the chain notifier
\* and Shutdown.  script holds the waiters, the state of each waiter's
\* confNtfn.Confirmed channel ("pending", "sent", "closed") and whether the
\* quit channel is closed.
\* ---------------------------------------------------------------------

Waiters == 1..MaxWaiters

InitConfirm ==
  /\ chan = Channels(Funding.our, Funding.their)
  /\ net = [p \in Party |-> <<>>]
  /\ last = Last("init", 0, "none", 0)
  /\ forged = 0
  /\ wallet = NewLightningWallet
  /\ script = [waiter |-> [id \in Waiters |-> Waiter("idle", <<>>)],
               ntfn |-> [id \in Waiters |-> "pending"],
               quit |-> FALSE]

\* go l.openChannelAfterConfirmations(pendingReservation), up to the select.
WaiterStart(id) ==
  /\ script.waiter[id].pc = "idle"
  /\ script' = [script EXCEPT !.waiter[id].pc = "select"]
  /\ UNCHANGED <<chan, net, last, forged, wallet>>

NotifierConfirms(id) ==
  /\ script.waiter[id].pc # "idle"
  /\ script.ntfn[id] = "pending"
  /\ script' = [script EXCEPT !.ntfn[id] = "sent"]
  /\ UNCHANGED <<chan, net, last, forged, wallet>>

NotifierShutdown(id) ==
  /\ script.waiter[id].pc # "idle"
  /\ script.ntfn[id] = "pending"
  /\ script' = [script EXCEPT !.ntfn[id] = "closed"]
  /\ UNCHANGED <<chan, net, last, forged, wallet>>

Shutdown ==
  /\ ~script.quit
  /\ script' = [script EXCEPT !.quit = TRUE]
  /\ UNCHANGED <<chan, net, last, forged, wallet>>

\* The cases of the select that are ready for waiter id.
Ready(id) ==
  (IF script.ntfn[id] = "pending" THEN {}
     ELSE {"Confirmed:" \o script.ntfn[id]})
    \cup (IF script.quit THEN {"quit"} ELSE {})

WaiterSelect(id) ==
  /\ script.waiter[id].pc = "select"
  /\ \E ready \in Ready(id) :
       script' = [script EXCEPT
                    !.waiter[id] = selectConfirmed(script.waiter[id], ready)]
  /\ UNCHANGED <<chan, net, last, forged, wallet>>

WaiterOpen(id) ==
  /\ script.waiter[id].pc = "open"
  /\ script' = [script EXCEPT !.waiter[id] = openConfirmed(script.waiter[id])]
  /\ UNCHANGED <<chan, net, last, forged, wallet>>

NextConfirm ==
  \/ \E id \in Waiters : WaiterStart(id)
  \/ \E id \in Waiters : NotifierConfirms(id)
  \/ \E id \in Waiters : NotifierShutdown(id)
  \/ Shutdown
  \/ \E id \in Waiters : WaiterSelect(id)
  \/ \E id \in Waiters : WaiterOpen(id)

\* A goroutine that can take a step is scheduled.
SpecConfirm ==
  /\ InitConfirm /\ [][NextConfirm]_vars
  /\ \A id \in Waiters : WF_vars(WaiterSelect(id)) /\ WF_vars(WaiterOpen(id))


\* ------------------------------------------------------------------------
\* SpecReplay: the single HTLC flow of SpecSerial on a link that may hand
\* party 1 a settle message a second time
\* ------------------------------------------------------------------------
ReplaySettle ==
  /\ InFlight = 0
  /\ ReceivedSettles(1) = 1
  /\ \E pre \in PaymentPreimages, logIndex \in 0..MaxPendingAdds :
       net' = [net EXCEPT
                 ![1] = Append(@, Msg("settle", pre, logIndex, NoSig, NoRev))]
  /\ UNCHANGED <<chan, last, forged, script, wallet>>

NextReplay ==
  \/ SerialAddHTLC
  \/ SerialSettleHTLC
  \/ \E p \in Party : SerialSign(p)
  \/ \E p \in Party : SerialRevoke(p)
  \/ \E p \in Party : SerialDeliver(p)
  \/ ReplaySettle

SpecReplay == Init /\ [][NextReplay]_vars

\* ------------------------------------------------------------------------
\* SpecCoinSelect: coinSelect called with any amount on any listing of
\* distinct unspent outputs
\* ------------------------------------------------------------------------
Listings ==
  UNION {{l \in [1..n -> 1..(MaxListed + 1)] :
            \A i, j \in 1..n : i # j => l[i] # l[j]} : n \in 0..MaxListed}

InitCoinSelect ==
  /\ chan = SessionStart(Channels(Funding.our, Funding.their))
  /\ net = [p \in Party |-> <<>>]
  /\ last = Last("init", 0, "none", 0)
  /\ forged = 0
  /\ wallet = NewLightningWallet
  /\ \E amt \in 0..MaxSelectAmount, coins \in Listings :
       script = [pc |-> "call", amt |-> amt, coins |-> coins,
                 selectedUtxos |-> <<>>, changeAmt |-> 0, err |-> "none"]

CoinSelectReturns ==
  /\ script.pc = "call"
  /\ \E r \in {coinSelect(script.amt, script.coins, ActiveAsset)} :
       script' = [script EXCEPT !.pc = "done",
                                !.selectedUtxos = r.selectedUtxos,
                                !.changeAmt = r.changeAmt,
                                !.err = r.err]
  /\ UNCHANGED <<chan, net, last, forged, wallet>>

NextCoinSelect == CoinSelectReturns

SpecCoinSelect == InitCoinSelect /\ [][NextCoinSelect]_vars

\* ------------------------------------------------------------------------
\* SpecUnprompted: the single HTLC flow with revocations nobody asked for:
\* a party calls RevokeCurrentCommitment at any time, and the peer's
\* revocation of its current commitment arrives before anything was signed
\* ------------------------------------------------------------------------
RevokeUnprompted(p) ==
  /\ InFlight = 0
  /\ Alive(p)
  /\ \E r \in {RevokeCurrentCommitment(chan[p])} :
        /\ chan' = [chan EXCEPT ![p] = r.lc]
        /\ net' = IF r.err = "none"
                    THEN Send(p, Msg("rev", 0, 0, NoSig, r.msg))
                    ELSE net
        /\ last' = Last("RevokeCurrentCommitment", p, r.err, 0)
  /\ UNCHANGED <<forged, script, wallet>>

\* The revocation message the peer's RevokeCurrentCommitment builds for the
\* commitment at the tail of party p's remote chain.
PeerRevocation(p) ==
  LET height == tail(chan[p].remoteCommitChain).height
      revocationEdge == AtIndex(Peer(p), height + InitialRevocationWindow + 1)
  IN CommitRevocation(AtIndex(Peer(p), height),
                      deriveRevocationPubkey(CommitKey(p), revocationEdge),
                      Sha256(revocationEdge))

ReceiveEarlyRevocation(p) ==
  /\ Alive(p)
  /\ forged < MaxBadInputs
  /\ chan[p].usedRevocations = <<>>
  /\ \E r \in {ReceiveRevocation(chan[p], PeerRevocation(p))} :
        /\ chan' = [chan EXCEPT ![p] = r.lc]
        /\ last' = Last("ReceiveRevocation", p, r.err, Len(r.fwd))
  /\ forged' = forged + 1
  /\ UNCHANGED <<net, script, wallet>>

NextUnprompted ==
  \/ SerialAddHTLC
  \/ SerialSettleHTLC
  \/ \E p \in Party : SerialSign(p)
  \/ \E p \in Party : SerialDeliver(p)
  \/ \E p \in Party : RevokeUnprompted(p)
  \/ \E p \in Party : ReceiveEarlyRevocation(p)

SpecUnprompted == Init /\ [][NextUnprompted]_vars

\* ------------------------------------------------------------------------
\* SpecOverdraw: the single HTLC flow with an HTLC of any amount, also one
\* above the settled balance of the party that offers it
\* ------------------------------------------------------------------------
AnyAmounts == 1..(Funding.our + 1)

OverdrawAddHTLC ==
  /\ InFlight = 0
  /\ chan[1].ourLogCounter = 0
  /\ \E pre \in PaymentPreimages, amt \in AnyAmounts : AddStep(1, pre, amt)
  /\ UNCHANGED script

NextOverdraw ==
  \/ OverdrawAddHTLC
  \/ SerialSettleHTLC
  \/ \E p \in Party : SerialSign(p)
  \/ \E p \in Party : SerialRevoke(p)
  \/ \E p \in Party : SerialDeliver(p)

SpecOverdraw == Init /\ [][NextOverdraw]_vars

\* ------------------------------------------------------------------------
\* Properties
\* ------------------------------------------------------------------------
RECURSIVE PendingIn(_, _)
PendingIn(outs, todo) ==
  IF todo = {} THEN 0
  ELSE LET o == CHOOSE x \in todo : TRUE
       IN (IF o.kind \in {"senderHTLC", "receiverHTLC"}
             THEN o.amt * CopiesIn(o, outs) ELSE 0)
          + PendingIn(outs, todo \ {o})

\* The sum of the HTLC outputs of a commitment's transaction.
PendingAmount(c) == PendingIn(c.txn.outs, BagToSet(c.txn.outs))

Conserves(c, capacity) ==
  c.ourBalance + c.theirBalance + PendingAmount(c) = capacity

AllCommitments(lc) ==
  {lc.localCommitChain[k] : k \in 1..Len(lc.localCommitChain)}
    \cup {lc.remoteCommitChain[k] : k \in 1..Len(lc.remoteCommitChain)}

\* C1: every commitment view built by fetchCommitmentView keeps
\* ourBalance + theirBalance + the amounts of the HTLCs in the view equal to
\* the channel capacity.
C1_BalanceConservation ==
  \A p \in Party : \A c \in AllCommitments(chan[p]) :
     Conserves(c, chan[p].channelState.Capacity)

\* C3: in SpecWindow no revocation is ever sent back, so every signature is
\* pipelined on the ones before it; each signature A produced from a window
\* entry and delivered in order is accepted by B's ReceiveNewCommitment.
C3_PipelinedSignaturesAccepted ==
  last.op = "ReceiveNewCommitment" => last.err = "none"

\* C5: SignNextCommitment returns ErrNoWindow exactly when the revocation
\* window is empty or usedRevocations holds InitialRevocationWindow entries,
\* and then the channel (window, used revocations, remote chain, every log
\* entry's commit heights) is left as it was.
C5_NoWindowStep ==
  \A p \in Party :
    (last'.op = "SignNextCommitment" /\ last'.p = p) =>
      /\ last'.err = "ErrNoWindow" <=>
            \/ Len(chan[p].revocationWindow) = 0
            \/ Len(chan[p].usedRevocations) = InitialRevocationWindow
      /\ last'.err = "ErrNoWindow" => chan'[p] = chan[p]

C5_NoWindow == [][C5_NoWindowStep]_vars

\* A refused signature with the window still stocked: all
\* InitialRevocationWindow entries handed out are awaiting revocation, and a
\* log entry is present whose heights the refusal must not touch.
C5_Witness ==
  /\ last.op = "SignNextCommitment"
  /\ last.err = "ErrNoWindow"
  /\ Len(chan[last.p].usedRevocations) = InitialRevocationWindow
  /\ Len(chan[last.p].revocationWindow) > 0
  /\ Len(chan[last.p].ourUpdateLog) > 0

\* C4: a ReceiveRevocation refused for a revocation key mismatch leaves the
\* whole channel as it was: elkrem receiver, revocation window, used
\* revocations, both chains, both logs, TheirCurrentRevocation and its hash.
C4_KeyMismatchStep ==
  \A p \in Party :
    (/\ last'.op = "ReceiveRevocation"
     /\ last'.p = p
     /\ last'.err = "revocation key mismatch") => chan'[p] = chan[p]

C4_KeyMismatchLeavesState == [][C4_KeyMismatchStep]_vars

LocalHeights(log) ==
  [k \in 1..Len(log) |->
     <<log[k].addCommitHeightLocal, log[k].removeCommitHeightLocal>>]

\* C6: a ReceiveNewCommitment that fails on its signature leaves the local
\* chain and every log entry's local commit heights as they were, and the
\* peer's genuine signature for the same state is accepted afterwards.
C6_FailedReceiveStep ==
  \A p \in Party :
    (last'.op = "ReceiveNewCommitment" /\ last'.p = p) =>
      /\ last'.err = "invalid commitment signature" =>
           /\ chan'[p].localCommitChain = chan[p].localCommitChain
           /\ LocalHeights(chan'[p].ourUpdateLog)
                 = LocalHeights(chan[p].ourUpdateLog)
           /\ LocalHeights(chan'[p].theirUpdateLog)
                 = LocalHeights(chan[p].theirUpdateLog)
      /\ forged' = forged => last'.err = "none"

C6_FailedReceiveLeavesState == [][C6_FailedReceiveStep]_vars

\* A lock-in round trip has just completed: SignNextCommitment by LockDone's
\* signer, ReceiveNewCommitment and RevokeCurrentCommitment by its peer,
\* ReceiveRevocation by the signer, all without error.
RoundTripDone ==
  /\ script.phase = "lock"
  /\ script.step \in {4, 8}
  /\ last.op = "ReceiveRevocation"
  /\ last.err = "none"

RoundTripSigner == IF script.step = 4 THEN Adder ELSE Settler

Pending(c, amount) == PendingAmount(c) = amount

\* C8: after the Add and the round trip started by the adder, the adder's
\* remote-chain tail has ourBalance = o - a, theirBalance = t and the HTLC of
\* amount a pending; after the reciprocal round trip the adder's local-chain
\* tail has the same balances and pending HTLC.
C8_PipelinedHTLC ==
  RoundTripDone =>
    LET c == IF script.step = 4
               THEN tail(chan[Adder].remoteCommitChain)
               ELSE tail(chan[Adder].localCommitChain)
    IN /\ c.ourBalance = script.o - script.a
       /\ c.theirBalance = script.t
       /\ Pending(c, script.a)
       /\ Cardinality(BagToSet(c.txn.outs))
            = 1 + (IF c.ourBalance # 0 THEN 1 ELSE 0)
                + (IF c.theirBalance # 0 THEN 1 ELSE 0)

C8_Witness ==
  /\ RoundTripDone
  /\ script.step = 8
  /\ script.a = 2
  /\ tail(chan[Adder].localCommitChain).ourBalance = script.o - 2

\* C9: with the HTLC locked in on both chains, SettleHTLC by the receiving
\* party followed by one full round in each direction leaves both update
\* logs of each party empty, and the settled balances carry the transfer:
\* the adder holds o - a and the settler t + a.
C9_SettleCompaction ==
  RoundsDone =>
    /\ \A p \in Party : /\ Len(chan[p].ourUpdateLog) = 0
                        /\ Len(chan[p].theirUpdateLog) = 0
    /\ chan[Adder].channelState.OurBalance = script.o - script.a
    /\ chan[Adder].channelState.TheirBalance = script.t + script.a
    /\ chan[Settler].channelState.OurBalance = script.t + script.a
    /\ chan[Settler].channelState.TheirBalance = script.o - script.a

SettledBalances ==
  /\ chan[Adder].channelState.OurBalance = script.o - script.a
  /\ chan[Adder].channelState.TheirBalance = script.t + script.a
  /\ chan[Settler].channelState.OurBalance = script.t + script.a
  /\ chan[Settler].channelState.TheirBalance = script.o - script.a

\* C9, amended: after the settle and one full round in each direction the
\* settled balances carry the transfer whatever the order of the two
\* rounds; a party's two logs are empty when it revoked before it received
\* the peer's revocation, and still hold the Add and its Settle when it
\* received the peer's revocation first.  With the rounds overlapped so that
\* both parties revoke first, all four logs are empty.
C9_SettleCompactionInOrder ==
  RoundsDone =>
    /\ SettledBalances
    /\ \A p \in Party :
         IF p \in script.late
           THEN Len(chan[p].ourUpdateLog) + Len(chan[p].theirUpdateLog) = 2
           ELSE /\ Len(chan[p].ourUpdateLog) = 0
                /\ Len(chan[p].theirUpdateLog) = 0

C9_Witness ==
  /\ RoundsDone
  /\ script.late = {}
  /\ script.a = 1
  /\ \A p \in Party : /\ Len(chan[p].ourUpdateLog) = 0
                      /\ Len(chan[p].theirUpdateLog) = 0
  /\ SettledBalances

\* The Add entries of party p's copy of the counterparty's log that
\* SettleHTLC(pre) may settle: not yet settled, payment hash sha256(pre).
Unsettled(p, pre) ==
  {k \in 1..Len(chan[p].theirUpdateLog) :
     /\ chan[p].theirUpdateLog[k].EntryType = Add
     /\ ~chan[p].theirUpdateLog[k].settled
     /\ chan[p].theirUpdateLog[k].RHash = Sha256(pre)}

SettlesFirstUnsettled(p, pre) ==
  LET log == chan[p].theirUpdateLog
      k == CHOOSE j \in Unsettled(p, pre) : \A i \in Unsettled(p, pre) : j <= i
      new == chan'[p].ourUpdateLog
  IN IF Unsettled(p, pre) = {}
       THEN /\ last'.err # "none"
            /\ chan'[p].ourUpdateLog = chan[p].ourUpdateLog
            /\ chan'[p].theirUpdateLog = chan[p].theirUpdateLog
            /\ chan'[p].ourLogCounter = chan[p].ourLogCounter
       ELSE /\ last'.err = "none"
            /\ chan'[p].theirUpdateLog = [log EXCEPT ![k].settled = TRUE]
            /\ Len(new) = Len(chan[p].ourUpdateLog) + 1
            /\ SubSeq(new, 1, Len(new) - 1) = chan[p].ourUpdateLog
            /\ new[Len(new)].EntryType = Settle
            /\ new[Len(new)].ParentIndex = log[k].Index
            /\ last'.idx = log[k].Index

\* No Add of the counterparty is the parent of two Settle entries of ours.
SettledOnce ==
  \A p \in Party :
    \A i, j \in 1..Len(chan[p].ourUpdateLog) :
      (/\ i # j
       /\ chan[p].ourUpdateLog[i].EntryType = Settle
       /\ chan[p].ourUpdateLog[j].EntryType = Settle)
        => chan[p].ourUpdateLog[i].ParentIndex
             # chan[p].ourUpdateLog[j].ParentIndex

\* C10: SettleHTLC(preimage) settles the first unsettled Add of the
\* counterparty's log whose hash is sha256(preimage): it marks it settled,
\* appends one Settle whose ParentIndex is the Add's index and returns that
\* index; with no such Add it returns an error and changes neither log nor
\* ourLogCounter.  So no Add is settled twice, and Adds of equal hash are
\* settled in log order.
C10_SettleStep ==
  /\ \A p \in Party : \A pre \in PaymentPreimages :
       SettleStep(p, pre) => SettlesFirstUnsettled(p, pre)
  /\ SettledOnce'

C10_SettleFirstUnsettled == [][C10_SettleStep]_vars

\* Two Adds with the same payment hash, settled by two calls in log order.
C10_Witness ==
  \E p \in Party :
    /\ Len(chan[p].theirUpdateLog) = 2
    /\ chan[p].theirUpdateLog[1].RHash = chan[p].theirUpdateLog[2].RHash
    /\ chan[p].theirUpdateLog[1].settled
    /\ chan[p].theirUpdateLog[2].settled
    /\ Len(chan[p].ourUpdateLog) = 2
    /\ chan[p].ourUpdateLog[1].ParentIndex = chan[p].theirUpdateLog[1].Index
    /\ chan[p].ourUpdateLog[2].ParentIndex = chan[p].theirUpdateLog[2].Index
    /\ last.op = "SettleHTLC"

LimboInputs(id) ==
  {wallet.fundingLimbo[id].inputs[k] :
     k \in 1..Len(wallet.fundingLimbo[id].inputs)}

\* C2: no outpoint is among the selected inputs of two reservations that are
\* in limbo at the same time.
C2_NoSharedInput ==
  \A id1, id2 \in DOMAIN wallet.fundingLimbo :
    id1 # id2 => LimboInputs(id1) \cap LimboInputs(id2) = {}

\* Two funded reservations in limbo, the later one made after an earlier
\* reservation was cancelled and its outpoints released.
C2_Witness ==
  /\ last.op = "handleFundingReserveRequest"
  /\ last.err = "none"
  /\ DOMAIN wallet.fundingLimbo = {2, 3}
  /\ LimboInputs(2) # {}
  /\ LimboInputs(3) # {}
  /\ wallet.unspent = Coins


\* The Add entries of party p's own log that carry log index logIndex.
OurAddsAt(p, logIndex) ==
  {k \in 1..Len(chan[p].ourUpdateLog) :
     /\ chan[p].ourUpdateLog[k].EntryType = Add
     /\ chan[p].ourUpdateLog[k].Index = logIndex}

SettleReceived(p, preimage, logIndex) ==
  LET adds == OurAddsAt(p, logIndex)
      new == chan'[p].theirUpdateLog
  IN IF \/ adds = {}
        \/ \E k \in adds : chan[p].ourUpdateLog[k].RHash # Sha256(preimage)
       THEN /\ last'.err # "none"
            /\ chan'[p].ourUpdateLog = chan[p].ourUpdateLog
            /\ chan'[p].theirUpdateLog = chan[p].theirUpdateLog
            /\ chan'[p].theirLogCounter = chan[p].theirLogCounter
       ELSE /\ last'.err = "none"
            /\ chan'[p].ourUpdateLog = chan[p].ourUpdateLog
            /\ Len(new) = Len(chan[p].theirUpdateLog) + 1
            /\ SubSeq(new, 1, Len(new) - 1) = chan[p].theirUpdateLog
            /\ new[Len(new)].EntryType = Settle
            /\ new[Len(new)].ParentIndex = logIndex
            /\ \A k \in adds :
                 new[Len(new)].Amount = chan[p].ourUpdateLog[k].Amount

\* C11: ReceiveHTLCSettle(preimage, logIdx) returns an error and leaves both
\* logs and theirLogCounter as they were when our log has no Add at logIdx
\* or that Add's payment hash is not sha256(preimage); otherwise it appends
\* exactly one Settle to their log, with ParentIndex logIdx and the Add's
\* amount.
C11_ReceiveSettleStep ==
  \A p \in Party :
    (/\ DeliverStep(p)
     /\ Head(net[p]).type = "settle")
      => SettleReceived(p, Head(net[p]).x, Head(net[p]).y)

C11_ReceiveHTLCSettle == [][C11_ReceiveSettleStep]_vars

\* A settle refused for its pre-image, at a party whose log holds an Add
\* at the index named.
C11_Witness ==
  /\ last.op = "ReceiveHTLCSettle"
  /\ last.err = "invalid payment hash"
  /\ OurAddsAt(last.p, last.idx) # {}


\* C12: once InitCooperativeClose or CompleteCooperativeClose has moved the
\* channel to closing or closed, every later InitCooperativeClose and
\* CompleteCooperativeClose on it returns ErrChanClosing and leaves the
\* status (and the rest of the channel) as it was.
C12_CloseRejectedStep ==
  \A p \in Party :
    (/\ chan[p].status \in {channelClosing, channelClosed}
     /\ \/ CloseInitStep(p)
        \/ DeliverStep(p) /\ Head(net[p]).type = "close")
      => /\ last'.err = "ErrChanClosing"
         /\ chan'[p] = chan[p]

C12_CloseRejected == [][C12_CloseRejectedStep]_vars

\* A channel closed by CompleteCooperativeClose refuses a later
\* InitCooperativeClose.
C12_Witness ==
  /\ last.op = "InitCooperativeClose"
  /\ last.err = "ErrChanClosing"
  /\ chan[last.p].status = channelClosed


\* C13: the status only moves along pending -> open -> closing -> closed:
\* no step moves a channel to closing from a status other than open, and
\* none moves it to closed from a status other than closing.
C13_StatusStep ==
  \A p \in Party :
    /\ (chan'[p].status = channelClosing /\ chan[p].status # channelClosing)
         => chan[p].status = channelOpen
    /\ (chan'[p].status = channelClosed /\ chan[p].status # channelClosed)
         => chan[p].status = channelClosing

C13_StatusOrder == [][C13_StatusStep]_vars

\* Entries in both update logs and commitments on both chains of party p.
HTLCWork(p) ==
  <<Len(chan[p].ourUpdateLog), Len(chan[p].theirUpdateLog),
    chan[p].ourLogCounter, chan[p].theirLogCounter,
    Len(chan[p].remoteCommitChain), Len(chan[p].localCommitChain)>>

\* C14: once the status is closing or closed, AddHTLC, ReceiveHTLC,
\* SettleHTLC and ReceiveHTLCSettle append no entry to either update log and
\* SignNextCommitment extends no chain.
C14_NoWorkStep ==
  \A p \in Party :
    chan[p].status \in {channelClosing, channelClosed}
      => HTLCWork(p)' = HTLCWork(p)

C14_NoHTLCWorkWhenClosing == [][C14_NoWorkStep]_vars


\* C15: every public method of a channel holds the channel's lock for its
\* full duration, so two calls on one channel never interleave: no two
\* goroutines are inside a method at once (AddHTLC is never in the middle of
\* SignNextCommitment), the entries of our log carry distinct indices, and
\* with no call running ourLogCounter has grown by one for each entry.
C15_CallsNeverInterleave ==
  LET log == RaceChan.ourUpdateLog
  IN /\ \A g, h \in Goroutines : (InCall(g) /\ InCall(h)) => g = h
     /\ \A i, j \in 1..Len(log) : log[i].Index = log[j].Index => i = j
     /\ (\A g \in Goroutines : ~InCall(g))
           => RaceChan.ourLogCounter = Len(log)


\* The outpoints offered to the next coin selection.
Selectable(w) == w.unspent \ w.locked

CancelReleases(id) ==
  IF id \in DOMAIN wallet.fundingLimbo
    THEN /\ last'.err = "none"
         /\ DOMAIN wallet'.fundingLimbo = DOMAIN wallet.fundingLimbo \ {id}
         /\ \A k \in DOMAIN wallet'.fundingLimbo :
              wallet'.fundingLimbo[k] = wallet.fundingLimbo[k]
         /\ wallet'.locked = wallet.locked \ LimboInputs(id)
         /\ wallet'.lockedOutPoints = wallet.lockedOutPoints \ LimboInputs(id)
         /\ LimboInputs(id) \subseteq Selectable(wallet')
         /\ \A coins \in ListUnspentWitness(wallet') :
              LimboInputs(id) \subseteq {coins[k] : k \in 1..Len(coins)}
    ELSE /\ last'.err # "none"
         /\ wallet'.fundingLimbo = wallet.fundingLimbo
         /\ wallet'.locked = wallet.locked
         /\ wallet'.lockedOutPoints = wallet.lockedOutPoints

\* C16: Cancel(id) of a reservation in limbo unlocks every outpoint the
\* reservation selected, in the wallet's locked-outpoint set and in the
\* wallet controller, and removes the reservation from limbo, so that the
\* outpoints are listed for the next coin selection; Cancel of an id not in
\* limbo returns an error and leaves limbo and the locked outpoints alone.
C16_CancelStep ==
  DispatchCancel => CancelReleases(Head(wallet.msgChan).id)

C16_CancelUnlocks == [][C16_CancelStep]_vars

\* A cancellation that released outpoints while another funded reservation
\* stays in limbo with its own outpoints locked.
C16_Witness ==
  /\ last.op = "handleFundingCancelRequest"
  /\ last.err = "none"
  /\ last.idx > 0
  /\ \E id \in DOMAIN wallet.fundingLimbo :
       /\ LimboInputs(id) # {}
       /\ LimboInputs(id) \subseteq wallet.locked

\* C17: a failed InitReservation is fully local: when the funding request
\* returns an error, no outpoint it locked stays locked and no reservation
\* is recorded in limbo.
C17_FailedReserveStep ==
  (DispatchReserve /\ last'.err # "none")
    => /\ wallet'.locked = wallet.locked
       /\ wallet'.lockedOutPoints = wallet.lockedOutPoints
       /\ wallet'.fundingLimbo = wallet.fundingLimbo

C17_FailedReserveIsLocal == [][C17_FailedReserveStep]_vars


\* The two amounts are each coverable alone and together exceed the free
\* balance the wallet started with.
Contended ==
  /\ \A c \in Callers : script.amt[c] <= FreeBalance(NewLightningWallet)
  /\ script.amt[1] + script.amt[2] > FreeBalance(NewLightningWallet)

\* The wallet controller produced every address and key it was asked for.
ControllerServed ==
  \A c \in Callers : script.err[c] \notin {"NewAddress", "NewRawKey"}

FullyVerified(tx) ==
  /\ \A k \in DOMAIN tx.theirInputs : tx.theirInputs[k] = "good"
  /\ tx.theirCommitmentSig = "good"

\* C19: over any sequence of CompleteReservation calls on a reservation, a
\* retry after a failed verification and a call with an empty list of input
\* scripts included, a funding transaction is broadcast only if every
\* funding input of the counterparty carries a witness that passed script
\* verification and the counterparty's commitment signature verified.
C19_BroadcastStep ==
  FundingSigs =>
    \A tx \in script'.broadcast \ script.broadcast : FullyVerified(tx)

C19_BroadcastOnlyVerified == [][C19_BroadcastStep]_vars

\* C20: a CompleteReservation that meets an invalid funding-input script or
\* an invalid commitment signature aborts the funding request: the
\* reservation leaves limbo, its selected outpoints are unlocked, and
\* nothing is broadcast or persisted.
C20_InvalidSigsStep ==
  (/\ FundingSigs
   /\ last'.err \in {"cannot validate transaction",
                     "counterparty's commitment signature is invalid"})
    => /\ last'.idx \notin DOMAIN wallet'.fundingLimbo
       /\ LimboInputs(last'.idx) \cap wallet'.locked = {}
       /\ LimboInputs(last'.idx) \cap wallet'.lockedOutPoints = {}
       /\ script' = script

C20_InvalidSigsAbort == [][C20_InvalidSigsStep]_vars

\* C21: a successful CompleteReservation removes the reservation from limbo,
\* persists the channel state and only then broadcasts: no funding
\* transaction is on the network while its channel state is unpersisted,
\* and a failure of the broadcast or of the persisting does not leave the
\* reservation out of limbo with its outpoints still locked.
C21_PersistThenBroadcastStep ==
  FundingSigs =>
    /\ \A tx \in script'.broadcast : tx.id \in script'.persisted
    /\ (last'.err \in {"publish", "sync"})
         => ~ (/\ last'.idx \notin DOMAIN wallet'.fundingLimbo
               /\ LimboInputs(last'.idx) \cap wallet'.locked # {})

C21_PersistThenBroadcast == [][C21_PersistThenBroadcastStep]_vars

\* C22: a dispatcher request (Cancel, CompleteReservation, channel-open)
\* whose reservation id is not in limbo is answered with an error, leaves
\* limbo, the locked outpoints and the id counter unchanged, and leaves the
\* dispatcher running for the requests that follow.
C22_UnknownReservationStep ==
  (/\ DispatchCancel \/ DispatchSigs \/ DispatchOpen
   /\ Head(wallet.msgChan).id \notin DOMAIN wallet.fundingLimbo)
    => /\ last'.err \notin {"none", "panic"}
       /\ wallet'.fundingLimbo = wallet.fundingLimbo
       /\ wallet'.locked = wallet.locked
       /\ wallet'.lockedOutPoints = wallet.lockedOutPoints
       /\ wallet'.nextFundingID = wallet.nextFundingID
       /\ ~wallet'.crashed

C22_UnknownReservation == [][C22_UnknownReservationStep]_vars

\* What waiter id has handed to the open signal agrees with what it saw: at
\* most one value, exactly one once it has exited, an open channel only
\* after a confirmation, a null handle only after the notifier's shutdown
\* or the quit signal.
OneValueDelivered(id) ==
  /\ Len(script.waiter[id].chanOpen) <= 1
  /\ script.waiter[id].pc = "exit" <=> Len(script.waiter[id].chanOpen) = 1
  /\ \A k \in DOMAIN script.waiter[id].chanOpen :
       /\ script.waiter[id].chanOpen[k] = "channel"
            => script.ntfn[id] = "sent"
       /\ script.waiter[id].chanOpen[k] = "nil"
            => script.ntfn[id] = "closed" \/ script.quit

C24_SignStep ==
  \A p \in Party :
    (SignStep(p) /\ last'.err = "none")
      => /\ chan[p].revocationWindow # <<>>
         /\ chan'[p].revocationWindow = Tail(chan[p].revocationWindow)
         /\ chan'[p].usedRevocations =
              Append(chan[p].usedRevocations, Head(chan[p].revocationWindow))
         /\ Len(chan'[p].remoteCommitChain) = Len(chan[p].remoteCommitChain) + 1
         /\ SubSeq(chan'[p].remoteCommitChain, 1, Len(chan[p].remoteCommitChain))
              = chan[p].remoteCommitChain
         /\ tip(chan'[p].remoteCommitChain).height
              = tip(chan[p].remoteCommitChain).height + 1
         /\ tip(chan'[p].remoteCommitChain).ourMessageIndex
              = chan[p].ourLogCounter
         /\ tip(chan'[p].remoteCommitChain).theirMessageIndex
              = chan[p].theirLogCounter
         /\ last'.idx = chan[p].theirLogCounter

C24_SignConsumesWindowInOrder == [][C24_SignStep]_vars

\* A second signature in a row: the used set held a revocation already, the
\* window holds another one, and the new commitment covers an update.
C24_Witness ==
  \E p \in Party :
    /\ last = Last("SignNextCommitment", p, "none", chan[p].theirLogCounter)
    /\ Len(chan[p].usedRevocations) = 2
    /\ chan[p].usedRevocations[1] # chan[p].usedRevocations[2]
    /\ chan[p].revocationWindow # <<>>
    /\ tip(chan[p].remoteCommitChain).ourMessageIndex
         + tip(chan[p].remoteCommitChain).theirMessageIndex > 0

\* C25: in every reachable state, whatever revocations (with a zero or a
\* non-zero pre-image) were received and whatever was signed,
\* len(usedRevocations) + len(revocationWindow) is at most
\* InitialRevocationWindow.
C25_WindowBound ==
  \A p \in Party :
    Len(chan[p].usedRevocations) + Len(chan[p].revocationWindow)
      <= InitialRevocationWindow

ChainInWindow(chain) ==
  /\ \A k \in 1..(Len(chain) - 1) : chain[k + 1].height = chain[k].height + 1
  /\ tip(chain).height - tail(chain).height <= InitialRevocationWindow

\* C27: in every reachable state the local and the remote commitment chain
\* have contiguous heights and tip.height - tail.height is at most
\* InitialRevocationWindow, whatever number of commitments the peer sends
\* before we revoke.
C27_ChainsInWindow ==
  \A p \in Party :
    /\ ChainInWindow(chan[p].localCommitChain)
    /\ ChainInWindow(chan[p].remoteCommitChain)

\* Party p receives a revocation with a non-zero pre-image and accepts it.
RevocationAccepted(p) ==
  /\ DeliverStep(p)
  /\ Head(net[p]).type = "rev"
  /\ Head(net[p]).rev.Revocation # zeroHash
  /\ last'.err = "none"

\* C28 as stated: after ReceiveRevocation accepts a non-zero pre-image,
\* TheirCurrentRevocation and TheirCurrentRevocationHash are the
\* NextRevocationKey and NextRevocationHash of the message just received.
C28_RotatesToMessageStep ==
  \A p \in Party :
    RevocationAccepted(p)
      => /\ chan'[p].channelState.TheirCurrentRevocation
              = Head(net[p]).rev.NextRevocationKey
         /\ chan'[p].channelState.TheirCurrentRevocationHash
              = Head(net[p]).rev.NextRevocationHash

C28_RotatesToMessage == [][C28_RotatesToMessageStep]_vars

\* C28 (amended): after ReceiveRevocation accepts a non-zero pre-image,
\* TheirCurrentRevocation and TheirCurrentRevocationHash are the
\* NextRevocationKey and NextRevocationHash of the revocation at the head of
\* usedRevocations before the call, which leaves the used set; the message
\* just received becomes the last entry of revocationWindow.
C28_RotatesToUsedHeadStep ==
  \A p \in Party :
    RevocationAccepted(p)
      => /\ chan[p].usedRevocations # <<>>
         /\ chan'[p].channelState.TheirCurrentRevocation
              = Head(chan[p].usedRevocations).NextRevocationKey
         /\ chan'[p].channelState.TheirCurrentRevocationHash
              = Head(chan[p].usedRevocations).NextRevocationHash
         /\ chan'[p].usedRevocations = Tail(chan[p].usedRevocations)
         /\ chan'[p].revocationWindow
              = Append(chan[p].revocationWindow, Head(net[p]).rev)

C28_RotatesToUsedHead == [][C28_RotatesToUsedHeadStep]_vars

\* A revocation was accepted and the key rotated to is not the one the
\* message carried.
C28_Witness ==
  \E p \in Party :
    /\ last = Last("ReceiveRevocation", p, "none", last.idx)
    /\ chan[p].revocationWindow # <<>>
    /\ tail(chan[p].remoteCommitChain).height >= 1
    /\ chan[p].channelState.TheirCurrentRevocation
         # chan[p].revocationWindow[Len(chan[p].revocationWindow)].NextRevocationKey

\* The entries ReceiveRevocation returns when party p handles the revocation
\* at the head of its queue.
Forwarded(p) == ReceiveRevocation(chan[p], Head(net[p]).rev).fwd

\* Entry htlc is locked in on both chains: a commitment of each chain has
\* included it (its add heights for an Add, its remove heights otherwise are
\* non-zero) and the tail of each chain has reached that height.
LockedIn(htlc, localChainTail, remoteChainTail) ==
  IF htlc.EntryType = Add
    THEN /\ htlc.addCommitHeightLocal # 0 /\ htlc.addCommitHeightRemote # 0
         /\ htlc.addCommitHeightLocal <= localChainTail
         /\ htlc.addCommitHeightRemote <= remoteChainTail
    ELSE /\ htlc.removeCommitHeightLocal # 0
         /\ htlc.removeCommitHeightRemote # 0
         /\ htlc.removeCommitHeightLocal <= localChainTail
         /\ htlc.removeCommitHeightRemote <= remoteChainTail

\* C29: ReceiveRevocation returns an entry of the counterparty's log only if
\* the entry is locked in on both chains; an entry that no commitment of
\* some chain has included yet is never returned.
C29_ForwardStep ==
  \A p \in Party :
    (DeliverStep(p) /\ Head(net[p]).type = "rev" /\ last'.err = "none")
      => \A k \in DOMAIN Forwarded(p) :
           LockedIn(Forwarded(p)[k],
                    tail(chan'[p].localCommitChain).height,
                    tail(chan'[p].remoteCommitChain).height)

C29_ForwardOnlyLockedIn == [][C29_ForwardStep]_vars

\* The Settle/Timeout entries of log before that log after no longer holds.
EvictedFrom(before, after) ==
  {e \in {before[k] : k \in DOMAIN before} :
     /\ e.EntryType # Add
     /\ \A k \in DOMAIN after : after[k].Index # e.Index}

\* The Settle/Timeout entries a step removes from the logs of party p.
Evicted(p) ==
  EvictedFrom(chan[p].ourUpdateLog, chan'[p].ourUpdateLog)
    \cup EvictedFrom(chan[p].theirUpdateLog, chan'[p].theirUpdateLog)

Min(a, b) == IF a <= b THEN a ELSE b
Max(a, b) == IF a >= b THEN a ELSE b

\* C30 as stated: a Settle/Timeout entry is removed from the logs only in a
\* state where min(local tail height, remote tail height) is at least
\* max(removeCommitHeightLocal, removeCommitHeightRemote) of the entry.
C30_EvictStep ==
  \A p \in Party : \A e \in Evicted(p) :
    Min(tail(chan'[p].localCommitChain).height,
        tail(chan'[p].remoteCommitChain).height)
      >= Max(e.removeCommitHeightLocal, e.removeCommitHeightRemote)

C30_EvictAtMinTail == [][C30_EvictStep]_vars

\* C30 (amended): a Settle/Timeout entry is removed from the logs only in a
\* state where a commitment of each chain has removed it and each chain's
\* tail has reached the height at which that chain removed it.
C30_EvictPerChainStep ==
  \A p \in Party : \A e \in Evicted(p) :
    /\ e.removeCommitHeightLocal # 0 /\ e.removeCommitHeightRemote # 0
    /\ tail(chan'[p].localCommitChain).height >= e.removeCommitHeightLocal
    /\ tail(chan'[p].remoteCommitChain).height >= e.removeCommitHeightRemote

C30_EvictPerChain == [][C30_EvictPerChainStep]_vars

\* A party has just evicted the Settle and its Add on receiving a
\* revocation, with its remote chain's tail above its local chain's tail.
C30_Witness ==
  \E p \in Party :
    /\ last.op = "ReceiveRevocation" /\ last.p = p /\ last.err = "none"
    /\ chan[p].ourLogCounter + chan[p].theirLogCounter = 2
    /\ chan[p].ourUpdateLog = <<>> /\ chan[p].theirUpdateLog = <<>>
    /\ tail(chan[p].remoteCommitChain).height
         > tail(chan[p].localCommitChain).height

\* The Settle/Timeout entries of log whose parent Add is present in the
\* counter-log and in its index.
HasParent(e, counterLog, counterIndex) ==
  /\ e.ParentIndex \in counterIndex
  /\ \E j \in 1..Len(counterLog) :
        counterLog[j].EntryType = Add /\ counterLog[j].Index = e.ParentIndex

ParentsPresent(lc) ==
  /\ \A k \in 1..Len(lc.ourUpdateLog) :
        lc.ourUpdateLog[k].EntryType # Add
          => HasParent(lc.ourUpdateLog[k], lc.theirUpdateLog, lc.theirLogIndex)
  /\ \A k \in 1..Len(lc.theirUpdateLog) :
        lc.theirUpdateLog[k].EntryType # Add
          => HasParent(lc.theirUpdateLog[k], lc.ourUpdateLog, lc.ourLogIndex)

\* C31: in every reachable state each Settle/Timeout entry of a party's logs
\* has its parent Add in the counter-log and in that log's index, and no
\* parent lookup of evaluateHTLCView or compactLogs has failed.
C31_ParentExists ==
  \A p \in Party : Alive(p) /\ ParentsPresent(chan[p])


\* The heights a channel keeps for its current local commitment.
HeightsAgree(lc) ==
  /\ lc.currentHeight = tail(lc.localCommitChain).height
  /\ lc.currentHeight = lc.channelState.NumUpdates

\* A successful RevokeCurrentCommitment of party p has just run.
Revoked(p) ==
  /\ last'.op = "RevokeCurrentCommitment" /\ last'.p = p
  /\ last'.err = "none"
  /\ chan'[p] # chan[p]

C32_RevokeStep ==
  \A p \in Party :
     /\ chan'[p].channelState.NumUpdates >= chan[p].channelState.NumUpdates
     /\ Alive(p) /\ ~chan'[p].crashed => HeightsAgree(chan'[p])
     /\ Revoked(p) =>
          /\ net'[Peer(p)][Len(net'[Peer(p)])].rev.Revocation
               = AtIndex(p, chan[p].currentHeight)
          /\ chan'[p].localCommitChain = Tail(chan[p].localCommitChain)
          /\ chan'[p].currentHeight = chan[p].currentHeight + 1
          /\ chan'[p].revocationWindowEdge = chan[p].revocationWindowEdge + 1
          /\ chan'[p].channelState.NumUpdates
               = chan[p].channelState.NumUpdates + 1

\* C32: currentHeight, the height of the local chain's tail and NumUpdates
\* are equal in every state; a successful RevokeCurrentCommitment reveals
\* the pre-image of the old currentHeight, removes exactly the local tail
\* and adds one to currentHeight, revocationWindowEdge and NumUpdates, and
\* NumUpdates never decreases.
C32_HeightsInStep ==
  /\ \A p \in Party : HeightsAgree(chan[p])
  /\ [][C32_RevokeStep]_vars

C32_Witness ==
  \E p \in Party :
     /\ last.op = "RevokeCurrentCommitment" /\ last.p = p
     /\ last.err = "none" /\ Alive(p)
     /\ chan[p].currentHeight = 2
     /\ chan[p].channelState.NumUpdates = 2
     /\ chan[p].revocationWindowEdge = InitialRevocationWindow + 2
     /\ tail(chan[p].localCommitChain).height = 2

\* Both chain tips of lc cover every update of the two logs.
TipsCoverLogs(lc) ==
  \A c \in {tip(lc.localCommitChain), tip(lc.remoteCommitChain)} :
     /\ c.ourMessageIndex = lc.ourLogCounter
     /\ c.theirMessageIndex = lc.theirLogCounter

\* C33: PendingUpdates returns true exactly when some update of ours or of
\* theirs is not yet covered by the local or the remote chain tip; it is
\* true after ReceiveHTLC has added an entry that no commitment includes.
C33_PendingUpdates ==
  \A p \in Party :
     Alive(p) => (PendingUpdates(chan[p]) <=> ~TipsCoverLogs(chan[p]))

\* The sum of the token values of a sequence of outpoints.
RECURSIVE SeqValues(_)
SeqValues(os) ==
  IF os = <<>> THEN 0 ELSE CoinValue(Head(os)) + SeqValues(Tail(os))

\* The outputs of the active asset among the first n outputs of coins.
MatchingPrefix(coins, n) ==
  SelectSeq(SubSeq(coins, 1, n), LAMBDA o : CoinAsset(o) = ActiveAsset)

\* C34: coinSelect returns the active-asset outputs of a minimal prefix of
\* the listing: their value sum is at least the amount, without the last
\* selected output it is below the amount, the change is the sum minus the
\* amount, and ErrInsufficientFunds is returned exactly when the
\* active-asset outputs of the whole listing sum to less than the amount.
C34_MinimalPrefix ==
  script.pc = "done" =>
    LET sel == script.selectedUtxos
        all == MatchingPrefix(script.coins, Len(script.coins))
    IN /\ (script.err = "ErrInsufficientFunds")
             <=> (SeqValues(all) < script.amt)
       /\ script.err \in {"none", "ErrInsufficientFunds"}
       /\ script.err = "none" =>
            /\ \E n \in 0..Len(script.coins) :
                  sel = MatchingPrefix(script.coins, n)
            /\ SeqValues(sel) >= script.amt
            /\ sel # <<>> =>
                 SeqValues(SubSeq(sel, 1, Len(sel) - 1)) < script.amt
            /\ script.changeAmt = SeqValues(sel) - script.amt

C34_Witness ==
  /\ script.pc = "done" /\ script.err = "none"
  /\ Len(script.selectedUtxos) = 2
  /\ Len(script.coins) = 3
  /\ \E i \in 1..2 : CoinAsset(script.coins[i]) # ActiveAsset
  /\ script.changeAmt > 0

\* The four inclusion heights of a log entry.
Heights(e) ==
  <<e.addCommitHeightRemote, e.addCommitHeightLocal,
    e.removeCommitHeightRemote, e.removeCommitHeightLocal>>

\* No height of an entry of before that is non-zero differs in after.
WriteOnce(before, after) ==
  \A k \in 1..Len(before), j \in 1..Len(after) :
     before[k].Index = after[j].Index =>
        \A f \in 1..4 : Heights(before[k])[f] # 0
                          => Heights(after[j])[f] = Heights(before[k])[f]

\* The amounts of the entries of the given types whose height f went from
\* zero in before to non-zero in after.
NewlySet(before, after, f, types) ==
  SeqSum([j \in 1..Len(after) |->
            IF /\ after[j].EntryType \in types
               /\ Heights(after[j])[f] # 0
               /\ \E k \in 1..Len(before) :
                     /\ before[k].Index = after[j].Index
                     /\ Heights(before[k])[f] = 0
              THEN after[j].Amount ELSE 0])

\* The commitment c extends a chain with tip old by the debits and credits
\* of exactly the entries whose heights the step has set; add and rem are
\* the positions of the chain's add and remove height in Heights.
AppliesNewlySet(old, c, lc, lcNext, add, rem) ==
  /\ c.ourBalance = old.ourBalance
       - NewlySet(lc.ourUpdateLog, lcNext.ourUpdateLog, add, {Add})
       + NewlySet(lc.ourUpdateLog, lcNext.ourUpdateLog, rem, {Settle})
       + NewlySet(lc.theirUpdateLog, lcNext.theirUpdateLog, rem, {Timeout})
  /\ c.theirBalance = old.theirBalance
       - NewlySet(lc.theirUpdateLog, lcNext.theirUpdateLog, add, {Add})
       + NewlySet(lc.theirUpdateLog, lcNext.theirUpdateLog, rem, {Settle})
       + NewlySet(lc.ourUpdateLog, lcNext.ourUpdateLog, rem, {Timeout})

C35_ViewStep ==
  \A p \in Party :
     /\ WriteOnce(chan[p].ourUpdateLog, chan'[p].ourUpdateLog)
     /\ WriteOnce(chan[p].theirUpdateLog, chan'[p].theirUpdateLog)
     /\ Len(chan'[p].remoteCommitChain) = Len(chan[p].remoteCommitChain) + 1
          => AppliesNewlySet(tip(chan[p].remoteCommitChain),
                             tip(chan'[p].remoteCommitChain),
                             chan[p], chan'[p], 1, 3)
     /\ Len(chan'[p].localCommitChain) = Len(chan[p].localCommitChain) + 1
          => AppliesNewlySet(tip(chan[p].localCommitChain),
                             tip(chan'[p].localCommitChain),
                             chan[p], chan'[p], 2, 4)

\* C35: an inclusion height of a log entry that is non-zero is never
\* changed by a later view, and each new commitment differs from the tip
\* it extends by the debits of the Adds and the credits of the
\* Settle/Timeout entries whose height on that chain the view has set.
C35_HeightsWriteOnce == [][C35_ViewStep]_vars

\* An entry settled on the remote chain at height 1 went through the view
\* of height 2 unchanged.
C35_Witness ==
  \E p \in Party :
     /\ tip(chan[p].remoteCommitChain).height = 2
     /\ last.op = "SignNextCommitment" /\ last.p = p /\ last.err = "none"
     /\ \E k \in 1..Len(chan[p].ourUpdateLog) :
           /\ chan[p].ourUpdateLog[k].EntryType = Settle
           /\ chan[p].ourUpdateLog[k].removeCommitHeightRemote = 1

\* No two Settle/Timeout entries of log close the same Add.
ClosedOnce(log) ==
  \A j, k \in 1..Len(log) :
     /\ j # k
     /\ log[j].EntryType # Add /\ log[k].EntryType # Add
     => log[j].ParentIndex # log[k].ParentIndex

\* Party p has handled a settle message for a log index that its log of
\* remote updates already holds a Settle for.
SecondSettle(p) ==
  /\ last'.op = "ReceiveHTLCSettle" /\ last'.p = p
  /\ net[p] # <<>> /\ net'[p] = Tail(net[p])
  /\ Head(net[p]).type = "settle"
  /\ \E k \in 1..Len(chan[p].theirUpdateLog) :
        /\ chan[p].theirUpdateLog[k].EntryType # Add
        /\ chan[p].theirUpdateLog[k].ParentIndex = last'.idx

C36_SecondSettleStep ==
  \A p \in Party :
     /\ ClosedOnce(chan'[p].ourUpdateLog)
     /\ ClosedOnce(chan'[p].theirUpdateLog)
     /\ SecondSettle(p) => last'.err # "none" /\ chan'[p] = chan[p]

\* C36: no Add is the parent of more than one Settle/Timeout entry, and
\* ReceiveHTLCSettle for a log index that already has a Settle returns an
\* error and leaves the channel as it was.
C36_AddClosedOnce == [][C36_SecondSettleStep]_vars

\* C37: both commitment chains of a party hold at least one commitment in
\* every reachable state, so that tip() and tail() are defined:
\* RevokeCurrentCommitment and ReceiveRevocation never remove the last one.
C37_ChainsNonEmpty ==
  \A p \in Party :
     /\ Len(chan[p].localCommitChain) >= 1
     /\ Len(chan[p].remoteCommitChain) >= 1

\* Party p has handled a revocation with a non-zero pre-image while its
\* usedRevocations was empty.
EarlyRevocation(p) ==
  /\ chan[p].usedRevocations = <<>>
  /\ Len(chan[p].remoteCommitChain) = 1
  /\ last'.op = "ReceiveRevocation" /\ last'.p = p
  /\ \/ forged' # forged
     \/ /\ net[p] # <<>> /\ net'[p] = Tail(net[p])
        /\ Head(net[p]).type = "rev"
        /\ Head(net[p]).rev.Revocation # zeroHash

C38_EarlyRevocationStep ==
  \A p \in Party :
     EarlyRevocation(p) =>
       /\ last'.err \notin {"none", "panic"}
       /\ chan'[p] = chan[p]

\* C38: a revocation with a non-zero pre-image that arrives while
\* usedRevocations is empty and the remote chain has length 1 is answered
\* with an error and changes no state.
C38_EarlyRevocationRejected == [][C38_EarlyRevocationStep]_vars

\* C39: no commitment of either chain and no settled channel state has a
\* negative balance, whatever the amounts of the HTLCs added.
C39_BalancesNonNegative ==
  \A p \in Party :
     /\ chan[p].channelState.OurBalance >= 0
     /\ chan[p].channelState.TheirBalance >= 0
     /\ \A c \in AllCommitments(chan[p]) :
           c.ourBalance >= 0 /\ c.theirBalance >= 0

\* The selected inputs of the reservations in limbo.
LiveInputs(w) ==
  UNION {{w.fundingLimbo[id].inputs[k] :
            k \in 1..Len(w.fundingLimbo[id].inputs)} :
         id \in DOMAIN w.fundingLimbo}

\* C40: whenever the dispatcher is idle with nothing queued, an outpoint is
\* locked if and only if a reservation in limbo selected it, also after a
\* reservation has left limbo through successful completion.
C40_LockedIffLive ==
  (~wallet.crashed /\ wallet.msgChan = <<>>) =>
     /\ wallet.lockedOutPoints = LiveInputs(wallet)
     /\ wallet.locked = LiveInputs(wallet)

====
